---- MODULE Spec2Model ----
(***************************************************************************)
(* go-pypi-mirror: metadata extraction and package-identity resolution.    *)
(*                                                                         *)
(* Go strings are TLA+ strings; s[i:j] is SubSeq(s, i+1, j).  A            *)
(* description text is the sequence of its lines (the regular expressions  *)
(* of the parser are line anchored, (?m:^...$)).                           *)
(***************************************************************************)
EXTENDS Integers, Sequences, FiniteSets, TLC

(***************************************************************************)
(* strings.* helpers used by the code                                      *)
(***************************************************************************)
\* The element of a one-element set.  Only({e(x) : x \in {v}}) is e(v) with v
\* computed once, as a local variable is.
Only(S) == CHOOSE r \in S : TRUE

Char(s, i) == SubSeq(s, i, i)

HasPrefix(s, p) == Len(p) <= Len(s) /\ SubSeq(s, 1, Len(p)) = p

HasSuffix(s, x) == Len(x) <= Len(s) /\ SubSeq(s, Len(s) - Len(x) + 1, Len(s)) = x

TrimSuffix(s, x) == IF HasSuffix(s, x) THEN SubSeq(s, 1, Len(s) - Len(x)) ELSE s

TrimPrefix(s, p) == IF HasPrefix(s, p) THEN SubSeq(s, Len(p) + 1, Len(s)) ELSE s

\* strings.Index / strings.LastIndex for a one-character needle: 0-based, -1 if absent.
Index(s, c) ==
    IF \E i \in 1..Len(s) : Char(s, i) = c
    THEN (CHOOSE i \in 1..Len(s) : Char(s, i) = c /\ \A j \in 1..(i - 1) : Char(s, j) # c) - 1
    ELSE -1

LastIndex(s, c) ==
    IF \E i \in 1..Len(s) : Char(s, i) = c
    THEN (CHOOSE i \in 1..Len(s) : Char(s, i) = c /\ \A j \in (i + 1)..Len(s) : Char(s, j) # c) - 1
    ELSE -1

\* s[:idx] and s[idx:] of Go, idx 0-based.
Before(s, idx) == SubSeq(s, 1, idx)

From(s, idx) == SubSeq(s, idx + 1, Len(s))

IsSpace(c) == c \in {" ", "\t", "\r"}

RECURSIVE TrimLeft(_)
TrimLeft(s) == IF Len(s) > 0 /\ IsSpace(Char(s, 1)) THEN TrimLeft(Tail(s)) ELSE s

RECURSIVE TrimRight(_)
TrimRight(s) ==
    IF Len(s) > 0 /\ IsSpace(Char(s, Len(s))) THEN TrimRight(SubSeq(s, 1, Len(s) - 1)) ELSE s

TrimSpace(s) == TrimRight(TrimLeft(s))

\* Go strings are byte strings.  The model writes "!" for a byte that is not
\* valid UTF-8 (0xFF) and "^" for the Unicode replacement character U+FFFD;
\* every other character of the model is ASCII.
byteFF == "!"

runeError == "^"

\* strings.ToValidUTF8(s, "\uFFFD"), the coercion json.Marshal applies to strings.
RECURSIVE ToValidUTF8(_)
ToValidUTF8(s) ==
    IF Len(s) = 0 THEN ""
    ELSE (IF Char(s, 1) = byteFF THEN runeError ELSE Char(s, 1)) \o ToValidUTF8(Tail(s))

Upper == "ABCDEFGHIJKLMNOPQRSTUVWXYZ"

Lower == "abcdefghijklmnopqrstuvwxyz"

\* strings.ToLower maps a string that is not ASCII rune by rune (strings.Map),
\* which writes U+FFFD for a byte that is not valid UTF-8.
ToLowerChar(c) ==
    IF \E i \in 1..Len(Upper) : Char(Upper, i) = c
    THEN Char(Lower, CHOOSE i \in 1..Len(Upper) : Char(Upper, i) = c)
    ELSE IF c = byteFF THEN runeError
    ELSE c

RECURSIVE ToLower(_)
ToLower(s) == IF Len(s) = 0 THEN "" ELSE ToLowerChar(Char(s, 1)) \o ToLower(Tail(s))

\* filepath.Base of a path that names a file.
Base(p) == From(p, LastIndex(p, "/") + 1)

\* path.Join of two elements, neither holding "." or ".." elements.
Join(a, b) == IF a = "" THEN b ELSE a \o "/" \o b

(***************************************************************************)
(* Metadata and its normalisation                                          *)
(***************************************************************************)
metadataExt == ".metadata.json"

archiveMetadataFile == "PKG-INFO"

errInvalidMetadataName == "invalid metadata: missing \"Name\" field"

errInvalidMetadataVersion == "invalid metadata: missing \"Version\" field"

errInvalidArchiveName == "invalid archive name"

errArchiveMemberNotFound == "member not found in archive"

errMetadataExtract == "failed to extra metadata"

errUnknownExtension == "unknown extension"

\* Errors of the operating system and of the libraries (os, zip, tar, json, url).
errIO == "i/o error"

errJSON == "json: cannot decode"

errURL == "parse: missing protocol scheme"

NoErr == ""

\* The zero value of the Metadata struct.
ZeroMetadata ==
    [Name |-> "", NormName |-> "", Version |-> "", Homepage |-> "", Trusted |-> FALSE, Hash |-> ""]

IsNormSep(c) == c \in {"-", "_", "."}

\* normRegex.ReplaceAllLiteralString(name, "-"): every maximal run of [-_.] becomes "-".
RECURSIVE ReplaceSeps(_)
ReplaceSeps(s) ==
    IF Len(s) = 0 THEN ""
    ELSE IF IsNormSep(Char(s, 1))
         THEN IF Len(s) > 1 /\ IsNormSep(Char(s, 2))
              THEN ReplaceSeps(Tail(s))
              ELSE "-" \o ReplaceSeps(Tail(s))
         ELSE Char(s, 1) \o ReplaceSeps(Tail(s))

\* normalize with the pattern [-_.] in place of [-_.]+: every separator
\* character becomes a "-" of its own.
RECURSIVE ReplaceEachSep(_)
ReplaceEachSep(s) ==
    IF Len(s) = 0 THEN ""
    ELSE (IF IsNormSep(Char(s, 1)) THEN "-" ELSE Char(s, 1)) \o ReplaceEachSep(Tail(s))

normalizeEachSep(name) == ToLower(ReplaceEachSep(name))

normalize(name) == ToLower(ReplaceSeps(name))

(***************************************************************************)
(* parseMetadata                                                           *)
(***************************************************************************)
namePrefixes == {"Name: "}

versionPrefixes == {"Version: "}

\* (?:Home-[pP]age:|Project-URL: [Hh]ome-?[pP]age,) followed by one space.
homepagePrefixes ==
    {"Home-page: ", "Home-Page: "}
    \cup {"Project-URL: " \o h \o "ome" \o d \o p \o "age, " :
            h \in {"H", "h"}, d \in {"", "-"}, p \in {"p", "P"}}

LineMatches(line, prefixes) == \E p \in prefixes : HasPrefix(line, p)

\* FindStringSubmatch: the capture group of the leftmost matching line, if any.
HasMatch(text, prefixes) == \E i \in 1..Len(text) : LineMatches(text[i], prefixes)

FirstMatch(text, prefixes) ==
    LET i == CHOOSE k \in 1..Len(text) :
                 /\ LineMatches(text[k], prefixes)
                 /\ \A j \in 1..(k - 1) : ~LineMatches(text[j], prefixes)
        p == CHOOSE q \in prefixes : HasPrefix(text[i], q)
    IN  From(text[i], Len(p))

\* parseMetadata as it was when the homepage line was required.
parseMetadataHomepageRequired(s) ==
    IF ~HasMatch(s, namePrefixes)
    THEN [meta |-> ZeroMetadata, err |-> errInvalidMetadataName]
    ELSE IF ~HasMatch(s, versionPrefixes)
    THEN [meta |-> ZeroMetadata, err |-> errInvalidMetadataVersion]
    ELSE IF ~HasMatch(s, homepagePrefixes)
    THEN [meta |-> ZeroMetadata, err |-> "invalid metadata: missing \"Home-page\" field"]
    ELSE [meta |-> [Name |-> TrimSpace(FirstMatch(s, namePrefixes)),
                    NormName |-> normalize(TrimSpace(FirstMatch(s, namePrefixes))),
                    Version |-> TrimSpace(FirstMatch(s, versionPrefixes)),
                    Homepage |-> TrimSpace(FirstMatch(s, homepagePrefixes)),
                    Trusted |-> TRUE, Hash |-> ""],
          err |-> NoErr]

parseMetadata(s) ==
    IF ~HasMatch(s, namePrefixes)
    THEN [meta |-> ZeroMetadata, err |-> errInvalidMetadataName]
    ELSE IF ~HasMatch(s, versionPrefixes)
    THEN [meta |-> ZeroMetadata, err |-> errInvalidMetadataVersion]
    ELSE LET name == TrimSpace(FirstMatch(s, namePrefixes))
             version == TrimSpace(FirstMatch(s, versionPrefixes))
             homepage == IF HasMatch(s, homepagePrefixes)
                         THEN TrimSpace(FirstMatch(s, homepagePrefixes))
                         ELSE ""
         IN  [meta |-> [Name |-> name, NormName |-> normalize(name), Version |-> version,
                        Homepage |-> homepage, Trusted |-> TRUE, Hash |-> ""],
              err |-> NoErr]

(***************************************************************************)
(* Archive reader.  An archive is [readable, members]: readable is FALSE   *)
(* when the container cannot be opened or decoded; members is the sequence *)
(* of its entries [name, data, bad], bad meaning that reading the entry    *)
(* fails.                                                                  *)
(***************************************************************************)
ScanMembers(ar, member) ==
    IF ~ar.readable THEN [data |-> <<>>, err |-> errIO]
    ELSE IF \A i \in 1..Len(ar.members) : ar.members[i].name # member
    THEN [data |-> <<>>, err |-> errArchiveMemberNotFound]
    ELSE LET i == CHOOSE k \in 1..Len(ar.members) :
                      /\ ar.members[k].name = member
                      /\ \A j \in 1..(k - 1) : ar.members[j].name # member
         IN  IF ar.members[i].bad
             THEN [data |-> <<>>, err |-> errIO]
             ELSE [data |-> ar.members[i].data, err |-> NoErr]

extractMemberFromZip(ar, member) == ScanMembers(ar, member)

extractMemberFromTar(ar, member) == ScanMembers(ar, member)

\* The filename fallback splitting the stem at its first "-" instead of its last.
FilenameFallbackFirstDash(prefix) ==
    Only({
        IF idx = -1
        THEN [meta |-> ZeroMetadata, err |-> errMetadataExtract]
        ELSE [meta |-> [Name |-> Before(prefix, idx),
                        NormName |-> normalize(Before(prefix, idx)),
                        Version |-> From(prefix, idx + 1),
                        Homepage |-> "", Trusted |-> TRUE, Hash |-> ""],
              err |-> NoErr] : idx \in {Index(prefix, "-")}})

\* The filename fallback of getMetadataFromArchive, for the archive stem prefix.
FilenameFallback(prefix) ==
    Only({
        IF idx = -1
        THEN [meta |-> ZeroMetadata, err |-> errMetadataExtract]
        ELSE [meta |-> [Name |-> Before(prefix, idx),
                        NormName |-> normalize(Before(prefix, idx)),
                        Version |-> From(prefix, idx + 1),
                        Homepage |-> "", Trusted |-> TRUE, Hash |-> ""],
              err |-> NoErr] : idx \in {LastIndex(prefix, "-")}})

\* fn(filePath, member), fn being the name of the extract function.
CallExtract(fn, ar, member) ==
    CASE fn = "extractMemberFromZip" -> extractMemberFromZip(ar, member)
      [] fn = "extractMemberFromTar" -> extractMemberFromTar(ar, member)

getMetadataFromArchive(filePath, ext, fn, member, ar) ==
    LET filename == Base(filePath)
        prefix == TrimSuffix(filename, ext)
        metadataFile == Join(prefix, IF member = "" THEN archiveMetadataFile ELSE member)
    IN  IF ~HasSuffix(filename, ext)
        THEN [meta |-> ZeroMetadata, err |-> errInvalidArchiveName]
        ELSE Only({
                 IF got.err # NoErr
                 THEN IF got.err # errArchiveMemberNotFound
                      THEN [meta |-> ZeroMetadata, err |-> got.err]
                      ELSE FilenameFallback(prefix)
                 ELSE parseMetadata(got.data)
             : got \in {CallExtract(fn, ar, metadataFile)}})

getMetadataFromTarBz2(path, ar) ==
    getMetadataFromArchive(path, ".tar.bz2", "extractMemberFromTar", "", ar)

getMetadataFromTarGz(path, ar) ==
    getMetadataFromArchive(path, ".tar.gz", "extractMemberFromTar", "", ar)

getMetadataFromZip(path, ar) ==
    getMetadataFromArchive(path, ".zip", "extractMemberFromZip", "", ar)

(***************************************************************************)
(* url.Parse, as far as the Path of the result goes, for raw URLs without  *)
(* '%' escapes and control characters and with a well-formed authority.    *)
(***************************************************************************)
IsLetter(c) ==
    \E i \in 1..Len(Upper) : Char(Upper, i) = c \/ Char(Lower, i) = c

IsSchemeChar(c, i) == IsLetter(c) \/ (i > 1 /\ c \in {"0", "1", "2", "3", "4", "5", "6", "7", "8", "9", "+", "-", "."})

CutAt(s, c) == IF Index(s, c) = -1 THEN s ELSE Before(s, Index(s, c))

UrlParse(rawURL) ==
    LET raw == CutAt(rawURL, "#")
        stops == {i \in 1..Len(raw) : ~IsSchemeChar(Char(raw, i), i)}
        stop == IF stops = {} THEN 0 ELSE CHOOSE i \in stops : \A j \in stops : i <= j
        colon == stop > 0 /\ Char(raw, stop) = ":"
        scheme == IF colon THEN Before(raw, stop - 1) ELSE ""
        rest == CutAt(IF colon THEN From(raw, stop) ELSE raw, "?")
        hasAuthority == (scheme # "" \/ ~HasPrefix(rest, "///")) /\ HasPrefix(rest, "//")
        afterSlashes == From(rest, 2)
        pathStart == Index(afterSlashes, "/")
    IN  IF colon /\ stop = 1 THEN [Path |-> "", err |-> errURL]
        ELSE IF raw = "*" THEN [Path |-> "*", err |-> NoErr]
        ELSE IF ~HasPrefix(rest, "/")
        THEN IF scheme # "" THEN [Path |-> "", err |-> NoErr]
             ELSE IF Index(CutAt(rest, "/"), ":") # -1 THEN [Path |-> "", err |-> errURL]
             ELSE [Path |-> rest, err |-> NoErr]
        ELSE IF hasAuthority
        THEN [Path |-> IF pathStart = -1 THEN "" ELSE From(afterSlashes, pathStart),
              err |-> NoErr]
        ELSE [Path |-> rest, err |-> NoErr]

(***************************************************************************)
(* Wheels                                                                  *)
(***************************************************************************)
\* The candidate name taken from the homepage's path, "" with ok = FALSE if none.
HomepageCandidate(uPath) ==
    LET p == TrimSuffix(uPath, "/")
        idx == LastIndex(p, "/")
    IN  IF Len(uPath) > 0 /\ HasPrefix(uPath, "/") /\ Len(p) > 0 /\ idx # -1
        THEN [ok |-> TRUE, name |-> Before(p, idx)]
        ELSE [ok |-> FALSE, name |-> ""]

\* Lines 217-232: the trust heuristic on the parsed metadata of a wheel.
WheelTrust(whlName, meta) ==
    IF HasPrefix(whlName, meta.Name) THEN [meta |-> meta, err |-> NoErr]
    ELSE Only({
             IF u.err # NoErr THEN [meta |-> ZeroMetadata, err |-> u.err]
             ELSE Only({
                      IF cand.ok /\ HasPrefix(whlName, cand.name)
                      THEN [meta |-> [meta EXCEPT !.Trusted = FALSE, !.Name = cand.name],
                            err |-> NoErr]
                      ELSE [meta |-> [meta EXCEPT !.Trusted = FALSE], err |-> NoErr]
                  : cand \in {HomepageCandidate(u.Path)}})
                  : u \in {UrlParse(meta.Homepage)}})

\* strings.SplitN(whlName, "-", 3): ok iff it has three components; prefix is
\* the first two joined by "-".
WheelComponents(whlName) ==
    LET i1 == Index(whlName, "-")
        i2 == IF i1 = -1 THEN -1 ELSE Index(From(whlName, i1 + 1), "-")
    IN  IF i1 = -1 \/ i2 = -1 THEN [ok |-> FALSE, prefix |-> ""]
        ELSE [ok |-> TRUE, prefix |-> Before(whlName, i1 + 1 + i2)]

getMetadataFromWheel(filePath, ar) ==
    LET whlName == Base(filePath)
        components == WheelComponents(whlName)
        metadataFile == Join(components.prefix \o ".dist-info", "METADATA")
    IN  IF ~ar.readable THEN [meta |-> ZeroMetadata, err |-> errIO]
        ELSE IF ~components.ok THEN [meta |-> ZeroMetadata, err |-> errInvalidArchiveName]
        ELSE Only({
                 IF rawMeta.err # NoErr THEN [meta |-> ZeroMetadata, err |-> rawMeta.err]
                 ELSE Only({
                          IF parsed.err # NoErr THEN parsed
                          ELSE WheelTrust(whlName, parsed.meta)
                      : parsed \in {parseMetadata(rawMeta.data)}})
                      : rawMeta \in {extractMemberFromZip(ar, metadataFile)}})

(***************************************************************************)
(* Sidecar files.  A sidecar is [kind, obj]: kind "missing" (no such       *)
(* file), "unreadable" (the file exists and cannot be opened), "garbage"   *)
(* (its content is no JSON value that decodes into Metadata) or "json",    *)
(* obj then being the JSON object, a function from its keys to values.     *)
(***************************************************************************)
\* json.Decoder.Decode into Metadata: a key that is absent leaves the zero value.
JsonField(obj, key, zero) == IF key \in DOMAIN obj THEN obj[key] ELSE zero

DecodeMetadata(obj) ==
    [Name |-> JsonField(obj, "name", ""),
     NormName |-> JsonField(obj, "norm_name", ""),
     Version |-> JsonField(obj, "version", ""),
     Homepage |-> JsonField(obj, "homepage", ""),
     Trusted |-> JsonField(obj, "trusted", FALSE),
     Hash |-> JsonField(obj, "sha256", "")]

\* json.NewEncoder(w).Encode(c): the object the encoded text denotes.  A string
\* is written coerced to valid UTF-8; its escapes are undone by the decoder.
MarshalJSON(c) ==
    [name |-> ToValidUTF8(c.Name), norm_name |-> ToValidUTF8(c.NormName),
     version |-> ToValidUTF8(c.Version), homepage |-> ToValidUTF8(c.Homepage),
     trusted |-> c.Trusted, sha256 |-> ToValidUTF8(c.Hash)]

\* (nil, nil) is found = FALSE with no error.
getMetadataFromJSON(sc) ==
    IF sc.kind = "missing" THEN [found |-> FALSE, meta |-> ZeroMetadata, err |-> NoErr]
    ELSE IF sc.kind = "unreadable" THEN [found |-> FALSE, meta |-> ZeroMetadata, err |-> errIO]
    ELSE IF sc.kind = "garbage" THEN [found |-> FALSE, meta |-> ZeroMetadata, err |-> errJSON]
    ELSE Only({
             IF meta.Name = ""
             THEN [found |-> FALSE, meta |-> ZeroMetadata, err |-> NoErr]
             ELSE [found |-> TRUE, meta |-> meta, err |-> NoErr]
         : meta \in {DecodeMetadata(sc.obj)}})

(***************************************************************************)
(* getMetadata and New.  fs is the file system as the artifact's           *)
(* resolution sees it: [archive, bytes, sidecar].  ext is the getter the   *)
(* loop over the getters map selected.                                     *)
(***************************************************************************)
\* A getters map with a key that is a suffix of another key.
gettersWithGz == {".tar.bz2", ".tar.gz", ".whl", ".zip", ".gz"}

getters == {".tar.bz2", ".tar.gz", ".whl", ".zip"}

CallGetter(ext, path, ar) ==
    CASE ext = ".tar.bz2" -> getMetadataFromTarBz2(path, ar)
      [] ext = ".tar.gz" -> getMetadataFromTarGz(path, ar)
      [] ext = ".whl" -> getMetadataFromWheel(path, ar)
      [] ext = ".zip" -> getMetadataFromZip(path, ar)
      [] OTHER -> getMetadataFromArchive(path, ext, "extractMemberFromTar", "", ar)

\* The loop over the map stops at the first key that is a suffix of path: the
\* getters it can leave selected, over all iteration orders; "" stands for nil.
SelectGetter(path) ==
    IF \A ext \in getters : ~HasSuffix(path, ext) THEN {""}
    ELSE {ext \in getters : HasSuffix(path, ext)}

\* sha256 of the file's bytes, in hex: one digest per content.
Sha256Hex(bytes) == "sha256-" \o ToString(bytes)

\* The result carries what the call did: cached (served from the sidecar), the
\* getter selected ("" if none was), extracted (a getter ran), hashed (the file was hashed).
NoCall ==
    [ok |-> FALSE, meta |-> ZeroMetadata, err |-> NoErr, cached |-> FALSE, getter |-> "",
     extracted |-> FALSE, hashed |-> FALSE]

\* getMetadata hashing the artifact again when it serves the sidecar's record.
getMetadataRehash(path, fs, ext) ==
    Only({
        IF cache.err = NoErr /\ cache.found
        THEN [NoCall EXCEPT !.ok = TRUE,
                            !.meta = [cache.meta EXCEPT !.Hash = Sha256Hex(fs.bytes)],
                            !.cached = TRUE, !.hashed = TRUE]
        ELSE IF ext = ""
        THEN [NoCall EXCEPT !.err = errUnknownExtension]
        ELSE Only({
                 IF got.err # NoErr
                 THEN [NoCall EXCEPT !.err = got.err, !.getter = ext, !.extracted = TRUE]
                 ELSE [NoCall EXCEPT !.ok = TRUE,
                                     !.meta = [got.meta EXCEPT !.Hash = Sha256Hex(fs.bytes)],
                                     !.getter = ext, !.extracted = TRUE, !.hashed = TRUE]
                                 : got \in {CallGetter(ext, path, fs.archive)}})
                                 : cache \in {getMetadataFromJSON(fs.sidecar)}})

\* getMetadata returning the getter's record as it is, without hashing the file.
getMetadataNoHash(path, fs, ext) ==
    Only({
        IF cache.err = NoErr /\ cache.found
        THEN [NoCall EXCEPT !.ok = TRUE, !.meta = cache.meta, !.cached = TRUE]
        ELSE IF ext = ""
        THEN [NoCall EXCEPT !.err = errUnknownExtension]
        ELSE Only({
                 IF got.err # NoErr
                 THEN [NoCall EXCEPT !.err = got.err, !.getter = ext, !.extracted = TRUE]
                 ELSE [NoCall EXCEPT !.ok = TRUE, !.meta = got.meta,
                                     !.getter = ext, !.extracted = TRUE]
             : got \in {CallGetter(ext, path, fs.archive)}})
    : cache \in {getMetadataFromJSON(fs.sidecar)}})

getMetadata(path, fs, ext) ==
    Only({
        IF cache.err = NoErr /\ cache.found
        THEN [NoCall EXCEPT !.ok = TRUE, !.meta = cache.meta, !.cached = TRUE]
        ELSE IF ext = ""
        THEN [NoCall EXCEPT !.err = errUnknownExtension]
        ELSE Only({
                 IF got.err # NoErr
                 THEN [NoCall EXCEPT !.err = got.err, !.getter = ext, !.extracted = TRUE]
                 ELSE [NoCall EXCEPT !.ok = TRUE,
                                     !.meta = [got.meta EXCEPT !.Hash = Sha256Hex(fs.bytes)],
                                     !.getter = ext, !.extracted = TRUE, !.hashed = TRUE]
                                 : got \in {CallGetter(ext, path, fs.archive)}})
                                 : cache \in {getMetadataFromJSON(fs.sidecar)}})

\* fmt.Errorf("error while processing %q: %w", path, err)
WrapErr(path, err) == [path |-> path, cause |-> err]

NoWrappedErr == WrapErr("", NoErr)

New(path, fs, ext) ==
    Only({
        IF r.err # NoErr
        THEN [ok |-> FALSE, pkg |-> [Path |-> "", Filename |-> "", Metadata |-> ZeroMetadata],
              err |-> WrapErr(path, r.err), call |-> r]
        ELSE [ok |-> TRUE, pkg |-> [Path |-> path, Filename |-> Base(path), Metadata |-> r.meta],
              err |-> NoWrappedErr, call |-> r] : r \in {getMetadata(path, fs, ext)}})

(***************************************************************************)
(* FixNames on a group, a sequence of packages                             *)
(***************************************************************************)
\* byTrust[t]: the indices of the members with Trusted = t, in the group's order.
TrustedIndices(pkgs, t) == {i \in 1..Len(pkgs) : pkgs[i].Metadata.Trusted = t}

\* FixNames taking the name of the last trusted member instead of the first.
FixNamesLastTrusted(pkgs) ==
    LET trustedPkgs == TrustedIndices(pkgs, TRUE)
        last == CHOOSE i \in trustedPkgs : \A j \in trustedPkgs : i >= j
    IN  IF trustedPkgs # {}
        THEN [i \in 1..Len(pkgs) |->
                 IF i \in TrustedIndices(pkgs, FALSE)
                 THEN [pkgs[i] EXCEPT !.Metadata.Name = pkgs[last].Metadata.Name]
                 ELSE pkgs[i]]
        ELSE pkgs

\* FixNames marking the members it renames as trusted.
FixNamesMarkTrusted(pkgs) ==
    LET trustedPkgs == TrustedIndices(pkgs, TRUE)
        first == CHOOSE i \in trustedPkgs : \A j \in trustedPkgs : i <= j
    IN  IF trustedPkgs # {}
        THEN [i \in 1..Len(pkgs) |->
                 IF i \in TrustedIndices(pkgs, FALSE)
                 THEN [pkgs[i] EXCEPT !.Metadata.Name = pkgs[first].Metadata.Name,
                                      !.Metadata.Trusted = TRUE]
                 ELSE pkgs[i]]
        ELSE pkgs

FixNames(pkgs) ==
    LET trustedPkgs == TrustedIndices(pkgs, TRUE)
        first == CHOOSE i \in trustedPkgs : \A j \in trustedPkgs : i <= j
    IN  IF trustedPkgs # {}
        THEN [i \in 1..Len(pkgs) |->
                 IF i \in TrustedIndices(pkgs, FALSE)
                 THEN [pkgs[i] EXCEPT !.Metadata.Name = pkgs[first].Metadata.Name]
                 ELSE pkgs[i]]
        ELSE pkgs

(***************************************************************************)
(* The resolver at work on one artifact of the download directory.         *)
(* The inputs: artifact paths, description texts, archives, sidecars.      *)
(***************************************************************************)
Paths ==
    {"d/Foo-1.0-py3-none-any.whl", "Foo-1.0.whl", "d/mypkg-2.3.1.tar.gz", "mypkg.tar.gz",
     "my-pkg-0.1.zip", "x_y-2.tar.bz2", "readme.txt", "notes.gz"}

Description(name, homepageLines) ==
    <<"Metadata-Version: 2.1", "Name: " \o name, "Version: 1.0">> \o homepageLines

WheelTexts ==
    {Description("Foo", <<"Home-page: https://example.com/Foo/repo">>),
     Description("foo_bar", <<"Home-page: https://example.com/Foo/repo">>),
     Description("foo_bar", <<"Home-page: https://example.com/foo-bar/project">>),
     Description("foo_bar", <<"Home-page: https://example.com/Foo">>),
     Description("foo_bar", <<"Home-Page: https://example.com/Foo/">>),
     Description("foo_bar", <<"Home-page: https://example.com">>),
     Description("foo_bar", <<"Home-page: UNKNOWN">>),
     Description("foo_bar", <<"Home-page: :bad">>),
     Description("foo_bar", <<"Home-page: ">>),
     Description("foo_bar", <<>>),
     Description("foo_bar", <<"Project-URL: Homepage, https://example.com/Foo/repo",
                              "Home-page: https://example.com/foo-bar/project">>),
     Description("  Foo \r", <<"Project-URL: home-page, /Foo/repo">>),
     <<"Metadata-Version: 2.1", "Version: 1.0", "name: Foo">>,
     <<"Name: Foo", "Summary: Version: 1.0">>}

SdistTexts ==
    {Description("mypkg", <<>>),
     Description("My__Pkg.x", <<"Home-page: https://example.com/my/pkg">>),
     Description("my" \o byteFF \o "pkg", <<>>),
     <<"Version: 2.3.1">>}

Member(name, data) == [name |-> name, data |-> data, bad |-> FALSE]

Archives ==
    {[readable |-> FALSE, members |-> <<>>],
     [readable |-> TRUE, members |-> <<>>],
     [readable |-> TRUE, members |-> <<Member("PKG-INFO", Description("mypkg", <<>>))>>],
     [readable |-> TRUE,
      members |-> <<[name |-> "mypkg-2.3.1/PKG-INFO", data |-> <<>>, bad |-> TRUE]>>],
     [readable |-> TRUE,
      members |-> <<Member("mypkg-2.3.1/setup.py", <<"Name: setup">>),
                    Member("mypkg-2.3.1/PKG-INFO", Description("mypkg", <<>>)),
                    Member("mypkg-2.3.1/PKG-INFO", Description("other", <<>>))>>]}
    \cup {[readable |-> TRUE, members |-> <<Member("Foo-1.0.dist-info/METADATA", t)>>] :
            t \in WheelTexts}
    \cup {[readable |-> TRUE, members |-> <<Member(m, t)>>] :
            m \in {"mypkg-2.3.1/PKG-INFO", "my-pkg-0.1/PKG-INFO", "x_y-2/PKG-INFO"},
            t \in SdistTexts}

Sidecars ==
    {[kind |-> "missing", obj |-> <<>>],
     [kind |-> "unreadable", obj |-> <<>>],
     [kind |-> "garbage", obj |-> <<>>],
     [kind |-> "json", obj |-> <<>>],
     [kind |-> "json", obj |-> [name |-> "", version |-> "9"]],
     [kind |-> "json", obj |-> [name |-> "Bar", version |-> "9"]],
     [kind |-> "json",
      obj |-> MarshalJSON([Name |-> "Baz", NormName |-> "qux", Version |-> "0.1",
                           Homepage |-> "", Trusted |-> FALSE, Hash |-> Sha256Hex(0)])]}

\* How often the artifact's bytes are rewritten in a run.
MaxEdits == 2

\* The artifacts of one distribution (normalized name foo-bar) that a download
\* directory may hold, each with the archive in it; none has a sidecar.
GroupArtifacts ==
    {[path |-> "d/foo_bar-1.0.tar.gz", archive |-> [readable |-> TRUE, members |-> <<>>]],
     [path |-> "d/Foo.Bar-2.0.zip",
      archive |-> [readable |-> TRUE,
                   members |-> <<Member("Foo.Bar-2.0/PKG-INFO", Description("Foo.Bar", <<>>))>>]],
     [path |-> "d/foo_bar-3.0-py3-none-any.whl",
      archive |-> [readable |-> TRUE,
                   members |-> <<Member("foo_bar-3.0.dist-info/METADATA",
                                        Description("foo_bar", <<>>))>>]],
     [path |-> "d/Foo_Bar-1.0-py3-none-any.whl",
      archive |-> [readable |-> TRUE,
                   members |-> <<Member("Foo_Bar-1.0.dist-info/METADATA",
                                        Description("foo-bar",
                                                    <<"Home-page: https://example.com/x/y">>))>>]],
     [path |-> "d/FOO_BAR-3.0-py3-none-any.whl",
      archive |-> [readable |-> TRUE,
                   members |-> <<Member("FOO_BAR-3.0.dist-info/METADATA",
                                        Description("foo.bar", <<>>))>>]],
     [path |-> "d/Foo_Bar-4.0-py3-none-any.whl",
      archive |-> [readable |-> TRUE,
                   members |-> <<Member("Foo_Bar-4.0.dist-info/METADATA",
                                        Description("foo_bar",
                                                    <<"Home-page: https://example.com/Foo">>))>>]]}

\* The most artifacts in a group.
MaxGroup == 3

VARIABLES path, archive, bytes, sidecar, edits, result, artifacts, group, fixedGroup, phase,
          input, output, mirror, cmd, runner

resolverVars == <<path, archive, bytes, sidecar, edits, result>>

groupVars == <<artifacts, group, fixedGroup, phase>>

\* input and output: the argument and the result of a function called on its own.
callVars == <<input, output>>

\* mirror: the mirror directory; cmd: the create command at work.
createVars == <<mirror, cmd>>

\* runner: the process that runs a command, its goroutines and channels.
runnerVars == <<runner>>

vars == <<resolverVars, groupVars, callVars, createVars, runnerVars>>

FS == [archive |-> archive, bytes |-> bytes, sidecar |-> sidecar]

\* result.new is what the last call of New returned on the file system as it
\* is now; called is FALSE before the first call and after a change of the files.
NoResult ==
    [called |-> FALSE,
     new |-> [ok |-> FALSE, pkg |-> [Path |-> "", Filename |-> "", Metadata |-> ZeroMetadata],
              err |-> NoWrappedErr, call |-> NoCall]]

NoGroup == artifacts = <<>> /\ group = <<>> /\ fixedGroup = <<>> /\ phase = "off"

NoCallVars == input = <<>> /\ output = <<>>

NoCreate == mirror = <<>> /\ cmd = <<>>

NoRunner == runner = <<>>

Init ==
    /\ path \in Paths
    /\ archive \in Archives
    /\ sidecar \in Sidecars
    /\ bytes = 1
    /\ edits = 0
    /\ result = NoResult
    /\ NoGroup
    /\ NoCallVars
    /\ NoCreate
    /\ NoRunner

\* pkg.New(path)
Resolve ==
    \E ext \in SelectGetter(path) :
        /\ result' = [called |-> TRUE, new |-> New(path, FS, ext)]
        /\ UNCHANGED <<path, archive, bytes, sidecar, edits, groupVars, callVars, createVars, runnerVars>>

\* Another program rewrites the artifact file.
ModifyArtifact ==
    /\ edits < MaxEdits
    /\ bytes' = bytes + 1
    /\ edits' = edits + 1
    /\ result' = NoResult
    /\ UNCHANGED <<path, archive, sidecar, groupVars, callVars, createVars, runnerVars>>

\* CreateMetadataFiles writing the sidecar of every package, whether or not one
\* exists.
CreateMetadataFilesAlwaysWrites(overwrite) ==
    \E ext \in SelectGetter(path) :
        LET kept == IF overwrite /\ sidecar.kind # "missing"
                    THEN [kind |-> "missing", obj |-> <<>>]
                    ELSE sidecar
        IN  /\ ~HasSuffix(path, metadataExt)
            /\ \E new \in {New(path, [FS EXCEPT !.sidecar = kept], ext)} :
                   sidecar' = IF new.ok
                              THEN [kind |-> "json",
                                    obj |-> MarshalJSON(FixNames(<<new.pkg>>)[1].Metadata)]
                              ELSE kept
            /\ result' = NoResult
            /\ UNCHANGED <<path, archive, bytes, edits, groupVars, callVars, createVars, runnerVars>>

\* CreateMetadataFiles(dir, overwrite) on the directory that holds the artifact
\* and its sidecar: the sidecars are removed if overwrite is set, List(dir, true)
\* resolves the artifact and runs FixNames on its group (the group of the only
\* package there is), and the sidecar is written unless one exists.
CreateMetadataFiles(overwrite) ==
    \E ext \in SelectGetter(path) :
        LET kept == IF overwrite /\ sidecar.kind # "missing"
                    THEN [kind |-> "missing", obj |-> <<>>]
                    ELSE sidecar
        IN  /\ ~HasSuffix(path, metadataExt)
            /\ \E new \in {New(path, [FS EXCEPT !.sidecar = kept], ext)} :
                   sidecar' = IF new.ok /\ kept.kind = "missing"
                              THEN [kind |-> "json",
                                    obj |-> MarshalJSON(FixNames(<<new.pkg>>)[1].Metadata)]
                              ELSE kept
            /\ result' = NoResult
            /\ UNCHANGED <<path, archive, bytes, edits, groupVars, callVars, createVars, runnerVars>>

Next ==
    \/ Resolve
    \/ ModifyArtifact
    \/ \E overwrite \in BOOLEAN : CreateMetadataFiles(overwrite)

Spec == Init /\ [][Next]_vars

(***************************************************************************)
(* FixNames at work on one normalized-name group: the artifacts of the     *)
(* group are resolved (the walk of List), then FixNames runs on the group. *)
(***************************************************************************)
NoResolver ==
    /\ path = ""
    /\ archive = [readable |-> FALSE, members |-> <<>>]
    /\ sidecar = [kind |-> "missing", obj |-> <<>>]
    /\ bytes = 1
    /\ edits = 0
    /\ result = NoResult

\* The groups: the sequences of up to MaxGroup different artifacts, in any order
\* (sort.Sort by normalized name leaves the members of a group in any order).
GroupInputs ==
    UNION {{a \in [1..n -> GroupArtifacts] : \A i, j \in 1..n : a[i] = a[j] => i = j} :
             n \in 0..MaxGroup}

InitFixNames ==
    /\ artifacts \in GroupInputs
    /\ group = <<>>
    /\ fixedGroup = <<>>
    /\ phase = "walk"
    /\ NoResolver
    /\ NoCallVars
    /\ NoCreate
    /\ NoRunner

\* The file system as the resolution of the i-th artifact sees it.
ArtifactFS(i) ==
    [archive |-> artifacts[i].archive, bytes |-> i, sidecar |-> [kind |-> "missing", obj |-> <<>>]]

\* The walk of List: New on every artifact, none of which fails.
ResolveGroup ==
    /\ phase = "walk"
    /\ \A i \in 1..Len(artifacts) :
           \A ext \in SelectGetter(artifacts[i].path) : New(artifacts[i].path, ArtifactFS(i), ext).ok
    /\ \E exts \in [1..Len(artifacts) -> getters] :
           /\ \A i \in 1..Len(artifacts) : exts[i] \in SelectGetter(artifacts[i].path)
           /\ group' = [i \in 1..Len(artifacts) |->
                           New(artifacts[i].path, ArtifactFS(i), exts[i]).pkg]
    /\ phase' = "listed"
    /\ UNCHANGED <<artifacts, fixedGroup, resolverVars, callVars, createVars, runnerVars>>

\* FixNames(group.Pkgs)
ApplyFixNames ==
    /\ phase = "listed"
    /\ fixedGroup' = FixNames(group)
    /\ phase' = "fixed"
    /\ UNCHANGED <<artifacts, group, resolverVars, callVars, createVars, runnerVars>>

NextFixNames == ResolveGroup \/ ApplyFixNames

SpecFixNames == InitFixNames /\ [][NextFixNames]_vars

(***************************************************************************)
(* Properties of the group reconciliation (SpecFixNames)                   *)
(***************************************************************************)
NormNameConsistent(pkgs) ==
    \A i \in 1..Len(pkgs) : pkgs[i].Metadata.NormName = normalize(pkgs[i].Metadata.Name)

\* C1: every Metadata the resolver returns from a fresh extraction (group, the
\* packages New returned for artifacts without sidecar), and every Metadata
\* after FixNames has run on its group (fixedGroup), has NormName = normalize(Name).
C1_NormNameIsNormalizedName ==
    /\ phase \in {"listed", "fixed"} => NormNameConsistent(group)
    /\ phase = "fixed" => NormNameConsistent(fixedGroup)

FirstTrusted(pkgs) ==
    CHOOSE i \in 1..Len(pkgs) :
        /\ pkgs[i].Metadata.Trusted
        /\ \A j \in 1..(i - 1) : ~pkgs[j].Metadata.Trusted

HasTrusted(pkgs) == \E i \in 1..Len(pkgs) : pkgs[i].Metadata.Trusted

\* C4: after FixNames on a group with a trusted member, every untrusted member
\* has the name of the first trusted member of the group's order and every
\* trusted member keeps its name; on a group without trusted member no name changes.
C4_FixNamesTakesFirstTrustedName ==
    phase = "fixed" =>
        /\ Len(fixedGroup) = Len(group)
        /\ \A i \in 1..Len(group) :
               fixedGroup[i].Metadata.Name =
                   IF HasTrusted(group) /\ ~group[i].Metadata.Trusted
                   THEN group[FirstTrusted(group)].Metadata.Name
                   ELSE group[i].Metadata.Name

\* A group with two trusted members of different names and an untrusted one, renamed.
C4_Witness ==
    /\ phase = "fixed"
    /\ \E i, j, k \in 1..Len(group) :
           /\ i < j
           /\ group[i].Metadata.Trusted /\ group[j].Metadata.Trusted
           /\ group[i].Metadata.Name # group[j].Metadata.Name
           /\ ~group[k].Metadata.Trusted
           /\ fixedGroup[k].Metadata.Name # group[k].Metadata.Name

\* C5: FixNames changes nothing but names: the group keeps its members and
\* their order, and every member its NormName, Version, Homepage, Trusted and Hash.
C5_FixNamesChangesOnlyNames ==
    phase = "fixed" =>
        /\ Len(fixedGroup) = Len(group)
        /\ \A i \in 1..Len(group) :
               /\ fixedGroup[i].Path = group[i].Path
               /\ fixedGroup[i].Filename = group[i].Filename
               /\ fixedGroup[i].Metadata.NormName = group[i].Metadata.NormName
               /\ fixedGroup[i].Metadata.Version = group[i].Metadata.Version
               /\ fixedGroup[i].Metadata.Homepage = group[i].Metadata.Homepage
               /\ fixedGroup[i].Metadata.Trusted = group[i].Metadata.Trusted
               /\ fixedGroup[i].Metadata.Hash = group[i].Metadata.Hash

\* A group of three in which FixNames renamed a member.
C5_Witness ==
    /\ phase = "fixed"
    /\ Len(group) = 3
    /\ \E i \in 1..Len(group) :
           /\ fixedGroup[i].Metadata.Name # group[i].Metadata.Name
           /\ fixedGroup[i].Metadata.Homepage # ""

(***************************************************************************)
(* Properties of the resolver (Spec).  result is the outcome of New on the *)
(* files as they are.                                                      *)
(***************************************************************************)
Returned == result.new.pkg.Metadata

Call == result.new.call

\* The sidecar file exists and holds a JSON object with a non-empty name.
UsableSidecar == sidecar.kind = "json" /\ "name" \in DOMAIN sidecar.obj /\ sidecar.obj["name"] # ""

\* C2: when the sidecar exists and decodes to a record with a non-empty name,
\* New returns exactly that record, runs no getter and hashes nothing, whatever
\* the path's extension, the archive and the artifact's bytes are; the hash
\* returned is the sidecar's.
C2_UsableSidecarIsReturnedAsIs ==
    result.called /\ UsableSidecar =>
        /\ result.new.ok
        /\ Returned = DecodeMetadata(sidecar.obj)
        /\ Returned.Hash = JsonField(sidecar.obj, "sha256", "")
        /\ Call.cached /\ ~Call.extracted /\ ~Call.hashed /\ Call.getter = ""

\* The sidecar was written for earlier bytes of the artifact, which has changed
\* since, and New returns the hash of the earlier bytes.
C2_Witness ==
    /\ result.called /\ UsableSidecar /\ result.new.ok
    /\ edits > 0
    /\ \E b \in 1..(bytes - 1) : Returned.Hash = Sha256Hex(b)
    /\ Returned.Hash # Sha256Hex(bytes)

\* C3: a missing sidecar is no cache, and resolution goes on to extraction; any
\* other error opening or decoding the sidecar is the error of the resolution,
\* and no extraction is attempted.
C3_SidecarErrorsAreFatal ==
    result.called =>
        /\ sidecar.kind = "missing" => ~Call.cached /\ (Call.getter # "" => Call.extracted)
        /\ sidecar.kind = "unreadable" =>
               ~result.new.ok /\ result.new.err = WrapErr(path, errIO) /\ ~Call.extracted
        /\ sidecar.kind = "garbage" =>
               ~result.new.ok /\ result.new.err = WrapErr(path, errJSON) /\ ~Call.extracted

\* New returned the record of a wheel whose METADATA parsed.
FreshWheel == result.called /\ result.new.ok /\ ~Call.cached /\ Call.getter = ".whl"

\* The name the METADATA member of the wheel declares.
WheelParsedName ==
    parseMetadata(extractMemberFromZip(
        archive, Join(WheelComponents(Base(path)).prefix \o ".dist-info", "METADATA")).data).meta.Name

\* The candidate name as the specification defines it: the homepage's path with
\* its leading slash stripped, cut before its last remaining "/".
SpecCandidate(homepage) ==
    LET uPath == UrlParse(homepage).Path
        p == TrimPrefix(uPath, "/")
        idx == LastIndex(p, "/")
    IN  [ok |-> UrlParse(homepage).err = NoErr /\ HasPrefix(uPath, "/") /\ idx # -1,
         name |-> Before(p, idx)]

\* C6: when the wheel's filename does not start with the parsed name and the
\* homepage's path begins with "/", the candidate is the path without its
\* leading slash, cut before its last "/"; if the filename starts with the
\* candidate, the candidate is the record's name.
C6_HomepageCandidateIsAdopted ==
    /\ FreshWheel
    /\ ~HasPrefix(Base(path), WheelParsedName)
    /\ SpecCandidate(Returned.Homepage).ok
    /\ HasPrefix(Base(path), SpecCandidate(Returned.Homepage).name)
    => Returned.Name = SpecCandidate(Returned.Homepage).name

\* C7: for a wheel whose METADATA parses, trusted is true exactly when the
\* filename starts with the parsed name; when it does not and the homepage
\* gives no candidate that is a prefix of the filename, the record keeps the
\* parsed name and is untrusted.
C7_WheelTrust ==
    FreshWheel =>
        /\ Returned.Trusted <=> HasPrefix(Base(path), WheelParsedName)
        /\ (/\ ~HasPrefix(Base(path), WheelParsedName)
            /\ ~(/\ SpecCandidate(Returned.Homepage).ok
                 /\ HasPrefix(Base(path), SpecCandidate(Returned.Homepage).name)))
           => Returned.Name = WheelParsedName /\ ~Returned.Trusted

\* C8: for a .tar.gz, .tar.bz2 or .zip archive without member <stem>/PKG-INFO:
\* if the stem holds a "-", the record has the stem before its last "-" as name,
\* the rest as version, NormName = normalize(name), trusted = true and no
\* homepage; if it holds none, the resolution fails with errMetadataExtract.
C8_FilenameFallback ==
    result.called /\ ~UsableSidecar /\ archive.readable =>
        \A ext \in {".tar.bz2", ".tar.gz", ".zip"} :
            LET stem == TrimSuffix(Base(path), ext)
                idx == LastIndex(stem, "-")
            IN  /\ HasSuffix(path, ext)
                /\ \A i \in 1..Len(archive.members) :
                       archive.members[i].name # stem \o "/PKG-INFO"
                => IF idx # -1
                   THEN /\ result.new.ok
                        /\ Returned.Name = Before(stem, idx)
                        /\ Returned.Version = From(stem, idx + 1)
                        /\ Returned.NormName = normalize(Before(stem, idx))
                        /\ Returned.Trusted
                        /\ Returned.Homepage = ""
                   ELSE /\ ~result.new.ok
                        /\ result.new.err = WrapErr(path, errMetadataExtract)

\* The fallback on a stem with two "-": my-pkg-0.1 gives my-pkg and 0.1.
C8_Witness ==
    /\ result.called /\ ~UsableSidecar /\ archive.readable
    /\ path = "my-pkg-0.1.zip"
    /\ \A i \in 1..Len(archive.members) : archive.members[i].name # "my-pkg-0.1/PKG-INFO"
    /\ result.new.ok /\ Returned.Name = "my-pkg" /\ Returned.Version = "0.1"
    /\ Call.extracted

\* C9: for every container kind, a member that is not found in the archive
\* triggers the filename fallback and is never the error New returns.
C9_MemberNotFoundIsRecovered ==
    result.called => result.new.err.cause # errArchiveMemberNotFound

\* C10: without usable sidecar, a path ending in none of .tar.bz2, .tar.gz,
\* .zip, .whl gives errUnknownExtension wrapped with the path, and no getter
\* runs; for any other path the getter selected is the one of the extension the
\* path ends in, whatever the order of the map's iteration.
C10_UnknownExtension ==
    result.called /\ ~UsableSidecar =>
        IF \A ext \in {".tar.bz2", ".tar.gz", ".zip", ".whl"} : ~HasSuffix(path, ext)
        THEN /\ ~result.new.ok
             /\ result.new.err = WrapErr(path, errUnknownExtension)
             /\ Call.getter = "" /\ ~Call.extracted /\ ~Call.hashed
        ELSE \A ext \in {".tar.bz2", ".tar.gz", ".zip", ".whl"} :
                 HasSuffix(path, ext) => Call.getter = ext /\ Call.extracted

\* readme.txt, with a sidecar that does not decode, is an unknown extension.
C10_Witness ==
    /\ result.called
    /\ path = "readme.txt"
    /\ sidecar.kind = "garbage"
    /\ result.new.err = WrapErr("readme.txt", errUnknownExtension)

(***************************************************************************)
(* parseMetadata on its own: input is a description text, output what the  *)
(* parser returns for it.                                                  *)
(***************************************************************************)
DescriptionLines ==
    {"Name: Foo", "Name:  my_Pkg.x \r", "Name: ", "Version: 1.0", "Version:  2\t",
     "Home-page: https://example.com/Foo/repo", "Project-URL: homepage, https://foo.org",
     "name: foo", "Summary: Name: x Version: 3", "Version:1"}

\* The most lines in a description text.
MaxLines == 3

DescriptionTexts == UNION {[1..n -> DescriptionLines] : n \in 0..MaxLines}

\* No artifact, no group: the resolver and the reconciler are not at work.
Idle ==
    /\ NoResolver
    /\ artifacts = <<>> /\ group = <<>> /\ fixedGroup = <<>>
    /\ NoCreate
    /\ NoRunner

InitParse ==
    /\ input \in DescriptionTexts
    /\ output = <<>>
    /\ phase = "call"
    /\ Idle

\* parseMetadata(s)
ParseMetadata ==
    /\ phase = "call"
    /\ output' = parseMetadata(input)
    /\ phase' = "returned"
    /\ UNCHANGED <<input, resolverVars, artifacts, group, fixedGroup, createVars, runnerVars>>

NextParse == ParseMetadata

SpecParse == InitParse /\ [][NextParse]_vars

(***************************************************************************)
(* Properties of the parser (SpecParse)                                    *)
(***************************************************************************)
HasLine(text, prefix) == \E i \in 1..Len(text) : HasPrefix(text[i], prefix)

HasHomepageLine(text) ==
    \E i \in 1..Len(text) :
        \/ HasPrefix(text[i], "Home-page: ") \/ HasPrefix(text[i], "Home-Page: ")
        \/ \E h \in {"H", "h"}, d \in {"", "-"}, p \in {"p", "P"} :
               HasPrefix(text[i], "Project-URL: " \o h \o "ome" \o d \o p \o "age, ")

\* C11: parseMetadata fails with the invalid-metadata error naming "Name" if no
\* line of the text starts with "Name: ", otherwise with the one naming
\* "Version" if no line starts with "Version: ", and otherwise succeeds; a text
\* without homepage line gives Homepage = ""; every record returned has
\* Trusted = TRUE, NormName = normalize(Name) and no hash.
C11_ParserContract ==
    phase = "returned" =>
        IF ~HasLine(input, "Name: ")
        THEN output.err = errInvalidMetadataName
        ELSE IF ~HasLine(input, "Version: ")
        THEN output.err = errInvalidMetadataVersion
        ELSE /\ output.err = NoErr
             /\ output.meta.Trusted
             /\ output.meta.NormName = normalize(output.meta.Name)
             /\ ~HasHomepageLine(input) => output.meta.Homepage = ""

\* A text with a name and a version and no homepage line, parsed, the name trimmed.
C11_Witness ==
    /\ phase = "returned"
    /\ input = <<"Version:  2\t", "name: foo", "Name:  my_Pkg.x \r">>
    /\ output.err = NoErr
    /\ output.meta.Name = "my_Pkg.x" /\ output.meta.NormName = "my-pkg-x"
    /\ output.meta.Version = "2" /\ output.meta.Homepage = ""

\* C12: a record New returns without serving it from the sidecar carries the
\* digest of the artifact's bytes as they are, which is not empty, and a getter
\* ran before the file was hashed; when New fails, it returns no record and the
\* file was not hashed.
C12_FreshRecordIsHashed ==
    result.called =>
        /\ result.new.ok /\ ~Call.cached =>
               /\ Returned.Hash = Sha256Hex(bytes)
               /\ Returned.Hash # ""
               /\ Call.extracted /\ Call.hashed
        /\ ~result.new.ok =>
               /\ ~Call.hashed
               /\ result.new.pkg.Metadata = ZeroMetadata

\* The artifact was rewritten twice and then resolved from its archive.
C12_Witness ==
    /\ result.called /\ result.new.ok /\ ~Call.cached
    /\ edits = 2
    /\ Returned.Hash = Sha256Hex(3)

\* No sidecar next to the artifact.
NoSidecar == [kind |-> "missing", obj |-> <<>>]

\* The sidecar written from what New extracts from the archive when there is no
\* sidecar, or none if New fails then.
FreshSidecar(ext) ==
    LET fresh == New(path, [FS EXCEPT !.sidecar = NoSidecar], ext)
    IN  IF fresh.ok
        THEN [kind |-> "json", obj |-> MarshalJSON(FixNames(<<fresh.pkg>>)[1].Metadata)]
        ELSE NoSidecar

C13_SidecarRoundTrip ==
    [][sidecar' # sidecar /\ sidecar'.kind = "json" =>
           \A ext \in SelectGetter(path) :
               LET extracted == New(path, [FS EXCEPT !.sidecar = [kind |-> "missing", obj |-> <<>>]], ext)
                   written == FixNames(<<extracted.pkg>>)[1].Metadata
                   read == New(path, FS', ext)
               IN  /\ read.ok
                   /\ read.pkg.Metadata.Name = written.Name
                   /\ read.pkg.Metadata.NormName = written.NormName
                   /\ read.pkg.Metadata.Version = written.Version
                   /\ read.pkg.Metadata.Homepage = written.Homepage
                   /\ read.pkg.Metadata.Trusted = written.Trusted
                   /\ read.pkg.Metadata.Hash = written.Hash]_vars

(***************************************************************************)
(* normalize on its own: input is a name, output its normalized form.      *)
(***************************************************************************)
NameChars == {"a", "B", "z", "7", "-", "_", "."}

\* The most characters in a name.
MaxName == 4

\* The string made of the characters of a sequence.
RECURSIVE Concat(_)
Concat(chars) == IF Len(chars) = 0 THEN "" ELSE Head(chars) \o Concat(Tail(chars))

Names == UNION {{Concat(chars) : chars \in [1..n -> NameChars]} : n \in 0..MaxName}

InitNormalize ==
    /\ input \in Names
    /\ output = <<>>
    /\ phase = "call"
    /\ Idle

\* normalize(name)
Normalize ==
    /\ phase = "call"
    /\ output' = normalize(input)
    /\ phase' = "returned"
    /\ UNCHANGED <<input, resolverVars, artifacts, group, fixedGroup, createVars, runnerVars>>

NextNormalize == Normalize

SpecNormalize == InitNormalize /\ [][NextNormalize]_vars

AsciiTo95 == " !\"#$%&'()*+,-./0123456789:;<=>?@ABCDEFGHIJKLMNOPQRSTUVWXYZ[\\]^_"

AsciiFrom97 == "abcdefghijklmnopqrstuvwxyz{|}~"

\* The first byte of a character of the model.
ByteOf(c) ==
    IF c = byteFF THEN 255
    ELSE IF c = runeError THEN 239
    ELSE IF \E i \in 1..Len(AsciiTo95) : Char(AsciiTo95, i) = c
    THEN 31 + CHOOSE i \in 1..Len(AsciiTo95) : Char(AsciiTo95, i) = c
    ELSE 96 + CHOOSE i \in 1..Len(AsciiFrom97) : Char(AsciiFrom97, i) = c

\* a < b on Go strings: the comparison of their bytes.
StringLess(a, b) ==
    LET n == IF Len(a) < Len(b) THEN Len(a) ELSE Len(b)
        diff == {i \in 1..n : Char(a, i) # Char(b, i)}
    IN  IF diff = {} THEN Len(a) < Len(b)
        ELSE Only({ByteOf(Char(a, k)) < ByteOf(Char(b, k)) :
                     k \in {CHOOSE i \in diff : \A j \in diff : i <= j}})

Digits == "0123456789"

IsDigit(c) == \E i \in 1..Len(Digits) : Char(Digits, i) = c

\* strconv.ParseInt of a string of digits.
RECURSIVE ParseInt(_)
ParseInt(s) ==
    IF Len(s) = 0 THEN 0
    ELSE 10 * ParseInt(SubSeq(s, 1, Len(s) - 1))
         + (CHOOSE d \in 0..9 : Char(Digits, d + 1) = Char(s, Len(s)))

\* strings.Split(s, "."), for a string of digits and dots.
RECURSIVE SplitDots(_)
SplitDots(s) ==
    IF Index(s, ".") = -1 THEN <<s>>
    ELSE <<Before(s, Index(s, "."))>> \o SplitDots(From(s, Index(s, ".") + 1))

\* version.NewVersion of go-version, for version strings without pre-release
\* and build metadata parts: an optional "v", then numbers separated by dots.
\* Any other string of the model's inputs begins with no digit and is an error.
NewVersion(v) ==
    Only({
        IF /\ Len(body) > 0
           /\ \A i \in 1..Len(body) : IsDigit(Char(body, i)) \/ Char(body, i) = "."
        THEN Only({
                 IF \A i \in 1..Len(parts) : Len(parts[i]) > 0
                 THEN [ok |-> TRUE, segments |-> [i \in 1..Len(parts) |-> ParseInt(parts[i])]]
                 ELSE [ok |-> FALSE, segments |-> <<>>]
             : parts \in {SplitDots(body)}})
        ELSE [ok |-> FALSE, segments |-> <<>>]
    : body \in {TrimPrefix(v, "v")}})

\* Version.Compare on the segments: the shorter version counts as padded with zeros.
Compare(s1, s2) ==
    LET hS == IF Len(s1) < Len(s2) THEN Len(s2) ELSE Len(s1)
        seg(s, i) == IF i <= Len(s) THEN s[i] ELSE 0
        diff == {i \in 1..hS : seg(s1, i) # seg(s2, i)}
    IN  IF diff = {} THEN 0
        ELSE Only({IF seg(s1, k) < seg(s2, k) THEN -1 ELSE 1 :
                     k \in {CHOOSE i \in diff : \A j \in diff : i <= j}})

\* The closure version of SortByVersion comparing the version strings as text only.
lessByVersionText(desc, p1, p2) ==
    IF desc THEN StringLess(p2.Metadata.Version, p1.Metadata.Version)
    ELSE StringLess(p1.Metadata.Version, p2.Metadata.Version)

\* The closure version of SortByVersion.
lessByVersion(desc, p1, p2) ==
    Only({
        IF ~v1.ok \/ ~v2.ok
        THEN IF desc THEN StringLess(p2.Metadata.Version, p1.Metadata.Version)
             ELSE StringLess(p1.Metadata.Version, p2.Metadata.Version)
        ELSE IF desc THEN Compare(v1.segments, v2.segments) = 1
             ELSE Compare(v1.segments, v2.segments) = -1
    : v1 \in {NewVersion(p1.Metadata.Version)}, v2 \in {NewVersion(p2.Metadata.Version)}})

(***************************************************************************)
(* collate.New(en-US).CompareString, for strings over the characters of    *)
(* CollationOrder in both cases and the soft hyphen.  Strings are compared *)
(* by the primary weights of all their characters first and by the         *)
(* tertiary weights (case) second; a character without weights counts at   *)
(* no level, and strings that differ only there are equal to the collator. *)
(***************************************************************************)
\* The model writes "|" for U+00AD SOFT HYPHEN, a character without collation weights.
softHyphen == "|"

\* The characters in the order of their primary weights.
CollationOrder == "_-.0123456789abcdefghijklmnopqrstuvwxyz"

RECURSIVE Weighted(_)
Weighted(s) ==
    IF Len(s) = 0 THEN ""
    ELSE (IF Char(s, 1) = softHyphen THEN "" ELSE Char(s, 1)) \o Weighted(Tail(s))

Primary(c) ==
    CHOOSE i \in 1..Len(CollationOrder) : Char(CollationOrder, i) = ToLowerChar(c)

\* Lower case sorts before upper case.
Tertiary(c) == IF ToLowerChar(c) # c THEN 1 ELSE 0

\* The order of two sequences of weights: -1, 0 or 1.
CompareWeights(k1, k2) ==
    LET n == IF Len(k1) < Len(k2) THEN Len(k1) ELSE Len(k2)
        diff == {i \in 1..n : k1[i] # k2[i]}
    IN  IF diff = {}
        THEN IF Len(k1) < Len(k2) THEN -1 ELSE IF Len(k1) > Len(k2) THEN 1 ELSE 0
        ELSE Only({IF k1[k] < k2[k] THEN -1 ELSE 1 :
                     k \in {CHOOSE i \in diff : \A j \in diff : i <= j}})

CompareString(a, b) ==
    Only({
        IF CompareWeights([i \in 1..Len(wa) |-> Primary(Char(wa, i))],
                          [i \in 1..Len(wb) |-> Primary(Char(wb, i))]) # 0
        THEN CompareWeights([i \in 1..Len(wa) |-> Primary(Char(wa, i))],
                            [i \in 1..Len(wb) |-> Primary(Char(wb, i))])
        ELSE CompareWeights([i \in 1..Len(wa) |-> Tertiary(Char(wa, i))],
                            [i \in 1..Len(wb) |-> Tertiary(Char(wb, i))])
    : wa \in {Weighted(a)}, wb \in {Weighted(b)}})

\* The closure name of SortByNormName.
lessByNormName(desc, p1, p2) ==
    IF desc THEN CompareString(p1.Metadata.NormName, p2.Metadata.NormName) = 1
    ELSE CompareString(p1.Metadata.NormName, p2.Metadata.NormName) = -1

\* The closure name of SortByName.
lessByName(desc, p1, p2) ==
    IF desc THEN CompareString(p1.Metadata.Name, p2.Metadata.Name) = 1
    ELSE CompareString(p1.Metadata.Name, p2.Metadata.Name) = -1

\* pkgSorter.Less for the sortBy function named by.
Less(by, desc, p1, p2) ==
    CASE by = "version" -> lessByVersion(desc, p1, p2)
      [] by = "normName" -> lessByNormName(desc, p1, p2)
      [] by = "name" -> lessByName(desc, p1, p2)

\* The most packages in a collection that is sorted.  sort.Sort is an insertion
\* sort on slices of up to 6 elements (on longer ones it is not stable).
MaxPkgs == 4

\* pkgSorter.Swap
Swap(pkgs, i, j) == [pkgs EXCEPT ![i] = pkgs[j], ![j] = pkgs[i]]

\* The inner loop of insertionSort: for j := i; j > a && Less(j, j-1); j-- { Swap(j, j-1) }
RECURSIVE SiftDown(_, _, _, _)
SiftDown(by, desc, pkgs, j) ==
    IF j > 1 /\ Less(by, desc, pkgs[j], pkgs[j - 1])
    THEN Only({SiftDown(by, desc, swapped, j - 1) : swapped \in {Swap(pkgs, j, j - 1)}})
    ELSE pkgs

\* The outer loop of insertionSort, from index i on.
RECURSIVE insertionSort(_, _, _, _)
insertionSort(by, desc, pkgs, i) ==
    IF i > Len(pkgs) THEN pkgs
    ELSE Only({insertionSort(by, desc, sifted, i + 1) : sifted \in {SiftDown(by, desc, pkgs, i)}})

\* sortBy.sort: sort.Sort with the sortBy function named by.
sortBySort(by, desc, pkgs) == insertionSort(by, desc, pkgs, 2)

SortByVersion(pkgs, desc) == sortBySort("version", desc, pkgs)

SortByNormName(pkgs, desc) == sortBySort("normName", desc, pkgs)

SortByName(pkgs, desc) == sortBySort("name", desc, pkgs)

(***************************************************************************)
(* SortByVersion on its own: input is [pkgs, desc], output the slice after *)
(* the call.                                                               *)
(***************************************************************************)
VersionStrings == {"1.0", "1.2", "1.10", "2.0", "v1", "latest"}

\* The i-th package of a collection, an artifact of its own with the given metadata.
MakePkg(i, name, version, trusted) ==
    [Path |-> "d/" \o ToString(i) \o "/" \o name \o "-" \o version \o ".tar.gz",
     Filename |-> name \o "-" \o version \o ".tar.gz",
     Metadata |-> [Name |-> name, NormName |-> normalize(name), Version |-> version,
                   Homepage |-> "", Trusted |-> trusted, Hash |-> Sha256Hex(i)]]

VersionCollections ==
    UNION {{[i \in 1..n |-> MakePkg(i, "pkg", versions[i], TRUE)] :
              versions \in [1..n -> VersionStrings]} : n \in 0..MaxPkgs}

InitSort ==
    /\ input \in [pkgs : VersionCollections, desc : BOOLEAN]
    /\ output = <<>>
    /\ phase = "call"
    /\ Idle

\* SortByVersion(pkgs, desc)
CallSortByVersion ==
    /\ phase = "call"
    /\ output' = SortByVersion(input.pkgs, input.desc)
    /\ phase' = "returned"
    /\ UNCHANGED <<input, resolverVars, artifacts, group, fixedGroup, createVars, runnerVars>>

NextSort == CallSortByVersion

SpecSort == InitSort /\ [][NextSort]_vars

(***************************************************************************)
(* Properties of SortByVersion (SpecSort)                                  *)
(***************************************************************************)
\* The slice after the call holds the packages of the slice before it, each once.
IsPermutation(before, after) ==
    /\ Len(after) = Len(before)
    /\ \A i \in 1..Len(before) :
           Cardinality({j \in 1..Len(before) : before[j] = before[i]})
               = Cardinality({j \in 1..Len(after) : after[j] = before[i]})

AllVersionsParse(pkgs) == \A i \in 1..Len(pkgs) : NewVersion(pkgs[i].Metadata.Version).ok

SegmentsOf(pkg) == NewVersion(pkg.Metadata.Version).segments

\* C15: on a collection whose version strings all parse, SortByVersion leaves a
\* permutation of the collection in which no later package has a smaller
\* version by the comparison of the numeric segments (desc = FALSE), or a
\* greater one (desc = TRUE); 1.0, 1.2, 1.10, 2.0 is the ascending order.
C15_SortByVersionIsNumeric ==
    phase = "returned" /\ AllVersionsParse(input.pkgs) =>
        /\ IsPermutation(input.pkgs, output)
        /\ \A i, j \in 1..Len(output) :
               i < j => Compare(SegmentsOf(output[i]), SegmentsOf(output[j]))
                            # (IF input.desc THEN -1 ELSE 1)
        /\ {input.pkgs[i].Metadata.Version : i \in 1..Len(input.pkgs)} = {"1.0", "1.2", "1.10", "2.0"}
               /\ Len(input.pkgs) = 4
           => [i \in 1..4 |-> output[i].Metadata.Version]
                  = IF input.desc THEN <<"2.0", "1.10", "1.2", "1.0">>
                    ELSE <<"1.0", "1.2", "1.10", "2.0">>

\* 2.0, 1.10, 1.2, 1.0 sorted ascending.
C15_Witness ==
    /\ phase = "returned"
    /\ ~input.desc
    /\ Len(input.pkgs) = 4
    /\ [i \in 1..4 |-> input.pkgs[i].Metadata.Version] = <<"2.0", "1.10", "1.2", "1.0">>
    /\ [i \in 1..4 |-> output[i].Metadata.Version] = <<"1.0", "1.2", "1.10", "2.0">>

\* C24: on any collection, with version strings that parse and strings that do
\* not, SortByVersion(pkgs, false) leaves a permutation of the collection in
\* which the comparison it sorts by (of the segments when both versions parse,
\* of the bytes otherwise) reports no later package as less than an earlier one.
C24_SortByVersionOrdersMixedInput ==
    phase = "returned" /\ ~input.desc =>
        /\ IsPermutation(input.pkgs, output)
        /\ \A i, j \in 1..Len(output) : i < j => ~lessByVersion(FALSE, output[j], output[i])

(***************************************************************************)
(* Grouping: GroupBy sorts the slice in place and cuts it where the key    *)
(* changes.  A group is [Key, Pkgs].                                       *)
(***************************************************************************)
\* sort(pkgs, false), sort being the sortFunc named.
CallSort(sort, pkgs) ==
    CASE sort = "SortByNormName" -> SortByNormName(pkgs, FALSE)
      [] sort = "SortByName" -> SortByName(pkgs, FALSE)
      [] sort = "SortByVersion" -> SortByVersion(pkgs, FALSE)

\* key(pkg), key being the field of the metadata the keyFunc returns.
CallKey(key, pkg) ==
    CASE key = "NormName" -> pkg.Metadata.NormName
      [] key = "Name" -> pkg.Metadata.Name
      [] key = "Version" -> pkg.Metadata.Version

\* The loop of GroupBy at index i: first is where the current group begins and
\* currentKey is the key of pkgs[first].
RECURSIVE GroupByLoop(_, _, _, _, _)
GroupByLoop(pkgs, key, i, first, groups) ==
    IF i > Len(pkgs)
    THEN Append(groups, [Key |-> CallKey(key, pkgs[first]),
                         Pkgs |-> SubSeq(pkgs, first, Len(pkgs))])
    ELSE IF CallKey(key, pkgs[first]) # CallKey(key, pkgs[i])
    THEN Only({GroupByLoop(pkgs, key, i + 1, i, appended) :
                 appended \in {Append(groups, [Key |-> CallKey(key, pkgs[first]),
                                               Pkgs |-> SubSeq(pkgs, first, i - 1)])}})
    ELSE GroupByLoop(pkgs, key, i + 1, first, groups)

GroupBy(pkgs, sort, key) ==
    IF Len(pkgs) = 0 THEN <<>>
    ELSE Only({GroupByLoop(sorted, key, 1, 1, <<>>) : sorted \in {CallSort(sort, pkgs)}})

GroupByNormName(pkgs) == GroupBy(pkgs, "SortByNormName", "NormName")

GroupByName(pkgs) == GroupBy(pkgs, "SortByName", "Name")

(***************************************************************************)
(* GroupByNormName, GroupByName and FixNames on a collection of resolved   *)
(* packages: input is the collection in the order the walk resolved it,    *)
(* output is [by, groups, fixed], the groups returned and, after FixNames  *)
(* ran on each of them (List, create), the groups as they then are.        *)
(***************************************************************************)
\* Name, version and trust of the packages a collection is made of: three
\* artifacts of foo-bar, two of them trusted under different names, and
\* artifacts of ab, of Ab and of ab written with a soft hyphen.
PkgChoices ==
    {<<"Foo.Bar", "1.10", TRUE>>, <<"foo_bar", "1.2", TRUE>>, <<"foo-bar", "2.0", FALSE>>,
     <<"ab", "1.0", TRUE>>, <<"a" \o softHyphen \o "b", "1.0", TRUE>>, <<"Ab", "0.9", TRUE>>,
     <<"b", "3", FALSE>>}

\* The most packages in a collection that is grouped.
MaxColl == 3

Collections ==
    UNION {{[i \in 1..n |-> MakePkg(i, c[i][1], c[i][2], c[i][3])] : c \in [1..n -> PkgChoices]} :
             n \in 0..MaxColl}

InitGroup ==
    /\ input \in Collections
    /\ output = <<>>
    /\ phase = "call"
    /\ Idle

\* GroupByNormName(pkgs)
CallGroupByNormName ==
    /\ phase = "call"
    /\ output' = [by |-> "NormName", groups |-> GroupByNormName(input), fixed |-> <<>>]
    /\ phase' = "grouped"
    /\ UNCHANGED <<input, resolverVars, artifacts, group, fixedGroup, createVars, runnerVars>>

\* GroupByName(pkgs)
CallGroupByName ==
    /\ phase = "call"
    /\ output' = [by |-> "Name", groups |-> GroupByName(input), fixed |-> <<>>]
    /\ phase' = "grouped"
    /\ UNCHANGED <<input, resolverVars, artifacts, group, fixedGroup, createVars, runnerVars>>

\* FixNames(group.Pkgs) for every group in turn.
FixGroups(groups) == [g \in 1..Len(groups) |-> [groups[g] EXCEPT !.Pkgs = FixNames(groups[g].Pkgs)]]

\* for _, group := range GroupByNormName(pkgs) { FixNames(group.Pkgs) }
CallFixNames ==
    /\ phase = "grouped"
    /\ output.by = "NormName"
    /\ output' = [output EXCEPT !.fixed = FixGroups(output.groups)]
    /\ phase' = "fixed"
    /\ UNCHANGED <<input, resolverVars, artifacts, group, fixedGroup, createVars, runnerVars>>

NextGroup == CallGroupByNormName \/ CallGroupByName \/ CallFixNames

SpecGroup == InitGroup /\ [][NextGroup]_vars

(***************************************************************************)
(* Properties of the grouping (SpecGroup)                                  *)
(***************************************************************************)
\* The packages of all groups, one group after the other.
RECURSIVE Flatten(_)
Flatten(groups) == IF Len(groups) = 0 THEN <<>> ELSE Head(groups).Pkgs \o Flatten(Tail(groups))

KeyOf(by, pkg) == IF by = "NormName" THEN pkg.Metadata.NormName ELSE pkg.Metadata.Name

\* C16: the groups GroupByNormName and GroupByName return partition the input:
\* their concatenation is a permutation of the input, no group is empty, every
\* member of a group has the group's key, the keys ascend from group to group
\* for the collator and no key is the key of two groups; no input, no group.
C16_GroupsPartitionTheInput ==
    phase = "grouped" =>
        /\ IsPermutation(input, Flatten(output.groups))
        /\ Len(input) = 0 => Len(output.groups) = 0
        /\ \A g \in 1..Len(output.groups) :
               /\ Len(output.groups[g].Pkgs) > 0
               /\ \A i \in 1..Len(output.groups[g].Pkgs) :
                      KeyOf(output.by, output.groups[g].Pkgs[i]) = output.groups[g].Key
        /\ \A g, h \in 1..Len(output.groups) :
               g < h => /\ output.groups[g].Key # output.groups[h].Key
                        /\ CompareString(output.groups[g].Key, output.groups[h].Key) # 1

\* C17: inside every group GroupByNormName and GroupByName return, the packages
\* are in ascending version order: no package has a smaller version than one
\* before it in the group.
C17_GroupsAreVersionOrdered ==
    phase = "grouped" =>
        \A g \in 1..Len(output.groups) :
            \A i, j \in 1..Len(output.groups[g].Pkgs) :
                i < j => ~lessByVersion(FALSE, output.groups[g].Pkgs[j], output.groups[g].Pkgs[i])

\* The orders in which a walk can resolve the packages of a collection.
WalkOrders(pkgs) ==
    {[i \in 1..Len(pkgs) |-> pkgs[p[i]]] :
       p \in {q \in [1..Len(pkgs) -> 1..Len(pkgs)] : \A i, j \in 1..Len(pkgs) : q[i] = q[j] => i = j}}

\* C18: GroupByNormName followed by FixNames on every group gives the same
\* groups, the same order of the members in each group and the same name on
\* every package, in whatever order the packages of the collection were resolved.
C18_OutputIsIndependentOfInputOrder ==
    phase = "fixed" =>
        \A permuted \in WalkOrders(input) :
            FixGroups(GroupByNormName(permuted)) = output.fixed

(***************************************************************************)
(* The create command: createCommand.Execute, step by step.  The download  *)
(* directory holds the artifacts (artifacts, in the order of the walk);    *)
(* the mirror directory is another directory, outside of it:               *)
(*   mirror.dirs     the directories <mirror>/<normName>                   *)
(*   mirror.entries  the files <mirror>/<normName>/<filename>, each a      *)
(*                   link to or a copy of the artifact src                 *)
(*   mirror.indexes  the files <mirror>/<normName>/index.html             *)
(*   mirror.root     the file <mirror>/index.html                          *)
(*   mirror.writable whether directories can be made in <mirror>           *)
(*   mirror.inside   whether <mirror> is the download directory itself     *)
(*                   (both flags have the default ".")                     *)
(* cmd holds the locals of Execute: pc (where it is), copy (the flag),     *)
(* i (the walk's or the loop's position), pkgs, groups, g (the group at    *)
(* work), rootPkgs, err (what it returned), log (what it did, in order)    *)
(* and runs (how often the command has been started); last is the run      *)
(* before: whether there was one, with which flag, whether it returned     *)
(* nil, and the mirror and the download directory it left.                 *)
(***************************************************************************)
EmptyArchive == [readable |-> TRUE, members |-> <<>>]

\* The artifacts a download directory may hold: three of foo-bar (two trusted
\* under different names, one untrusted), mypkg, Zeta (which the walk meets
\* before foo_bar), three whose names the collator takes for equal, and a file
\* that is no archive.
DownloadArtifacts ==
    {a \in GroupArtifacts :
       a.path \in {"d/foo_bar-1.0.tar.gz", "d/Foo.Bar-2.0.zip", "d/Foo_Bar-1.0-py3-none-any.whl"}}
    \cup {[path |-> "d/mypkg-2.3.1.tar.gz", archive |-> EmptyArchive],
          [path |-> "d/Zeta-1.0.zip",
           archive |-> [readable |-> TRUE,
                        members |-> <<Member("Zeta-1.0/PKG-INFO", Description("Zeta", <<>>))>>]],
          [path |-> "d/readme.txt", archive |-> [readable |-> FALSE, members |-> <<>>]],
          [path |-> "d/1/ab-1.0.tar.gz", archive |-> EmptyArchive],
          [path |-> "d/2/a" \o softHyphen \o "b-1.0.tar.gz", archive |-> EmptyArchive],
          [path |-> "d/3/ab-1.0.tar.gz", archive |-> EmptyArchive]}

\* The most artifacts in the download directory.
MaxDownload == 3

\* How often create is run.
MaxRuns == 2

\* The order of two paths in the walk: the names of a directory are visited in
\* the order of their bytes and a directory's files before the next name, which
\* is the order of the paths' bytes with the separator before every other byte.
PathLess(a, b) ==
    LET byte(c) == IF c = "/" THEN 0 ELSE ByteOf(c)
        n == IF Len(a) < Len(b) THEN Len(a) ELSE Len(b)
        diff == {i \in 1..n : Char(a, i) # Char(b, i)}
    IN  IF diff = {} THEN Len(a) < Len(b)
        ELSE Only({byte(Char(a, k)) < byte(Char(b, k)) :
                     k \in {CHOOSE i \in diff : \A j \in diff : i <= j}})

\* filepath.Walk visits the files in lexical order.
RECURSIVE WalkOrder(_)
WalkOrder(files) ==
    IF files = {} THEN <<>>
    ELSE Only({<<first>> \o WalkOrder(files \ {first}) :
                 first \in {CHOOSE a \in files :
                               \A b \in files \ {a} : PathLess(a.path, b.path)}})

\* Every file of the download directory has bytes of its own.
WithBytes(files) == [i \in 1..Len(files) |-> [path |-> files[i].path, archive |-> files[i].archive, bytes |-> i]]

\* The bytes of a file that was truncated.
NoBytes == 0

\* The file system as New sees it on the i-th file of the download directory.
DownloadFS(i) ==
    [archive |-> artifacts[i].archive, bytes |-> artifacts[i].bytes,
     sidecar |-> [kind |-> "missing", obj |-> <<>>]]

NoIndex == [exists |-> FALSE, body |-> <<>>]

EmptyMirror ==
    [dirs |-> {}, entries |-> {}, indexes |-> {}, root |-> NoIndex, writable |-> TRUE,
     inside |-> FALSE]

\* A root index left in the mirror directory by an earlier use of it.
OldRootIndex == [exists |-> TRUE, body |-> <<[NormName |-> "old", Name |-> "Old"]>>]

NoLast == [ran |-> FALSE, copy |-> FALSE, ok |-> FALSE, mirror |-> <<>>, files |-> <<>>]

NotStarted ==
    [pc |-> "idle", runs |-> 0, copy |-> FALSE, i |-> 0, pkgs |-> <<>>, groups |-> <<>>, g |-> 0,
     rootPkgs |-> <<>>, err |-> NoWrappedErr, log |-> <<>>, last |-> NoLast]

InitCreate ==
    /\ artifacts \in {WithBytes(WalkOrder(files)) :
                        files \in {s \in SUBSET DownloadArtifacts : Cardinality(s) <= MaxDownload}}
    /\ mirror \in {[EmptyMirror EXCEPT !.root = root, !.writable = writable] :
                     root \in {NoIndex, OldRootIndex}, writable \in BOOLEAN}
    /\ cmd = NotStarted
    /\ NoResolver
    /\ group = <<>> /\ fixedGroup = <<>> /\ phase = "off"
    /\ NoCallVars
    /\ NoRunner

\* What Execute did: a call of the operating system or of a renderer.
Did(op, target, pkgs) == [op |-> op, path |-> target, pkgs |-> pkgs]

idleVars == <<resolverVars, group, fixedGroup, phase, callVars, runnerVars>>

\* The download directory, which the paths of the mirror's files begin with
\* when the mirror is inside it.
downloadDir == "d"

\* The index of the file of the download directory at a path.
FileAt(src) == CHOOSE k \in 1..Len(artifacts) : artifacts[k].path = src

\* The file system as New sees it on a file of the mirror: through a link the
\* file it points to, for a copy the bytes copied, and an index is no archive.
EntryFS(e) ==
    IF e.kind = "link" THEN DownloadFS(FileAt(e.src))
    ELSE [archive |-> e.archive, bytes |-> e.bytes, sidecar |-> [kind |-> "missing", obj |-> <<>>]]

HtmlFS ==
    [archive |-> [readable |-> FALSE, members |-> <<>>], bytes |-> NoBytes,
     sidecar |-> [kind |-> "missing", obj |-> <<>>]]

\* The files filepath.Walk(downloadDir) visits, in its order, each with what
\* New finds there: the artifacts and, when the mirror is inside the download
\* directory, the entries and the indexes of the mirror as well.
WalkFiles ==
    IF ~mirror.inside
    THEN [k \in 1..Len(artifacts) |-> [path |-> artifacts[k].path, fs |-> DownloadFS(k)]]
    ELSE WalkOrder(
             {[path |-> artifacts[k].path, fs |-> DownloadFS(k)] : k \in 1..Len(artifacts)}
             \cup {[path |-> Join(downloadDir, e.path), fs |-> EntryFS(e)] : e \in mirror.entries}
             \cup {[path |-> Join(downloadDir, Join(x.dir, "index.html")), fs |-> HtmlFS] :
                     x \in mirror.indexes}
             \cup (IF mirror.root.exists
                   THEN {[path |-> Join(downloadDir, "index.html"), fs |-> HtmlFS]}
                   ELSE {}))

\* Execute is called, with the flag -copy set or not.
CreateStart(copy) ==
    /\ cmd.pc \in {"idle", "done"}
    /\ cmd.runs < MaxRuns
    /\ cmd' = [NotStarted EXCEPT !.pc = "walk", !.runs = cmd.runs + 1, !.copy = copy,
                                 !.last = [ran |-> cmd.runs > 0, copy |-> cmd.copy,
                                           ok |-> cmd.err = NoWrappedErr,
                                           mirror |-> mirror, files |-> artifacts]]
    /\ UNCHANGED <<artifacts, mirror, idleVars>>

\* List leaving out a file that New fails on and going on with the walk.
CreateWalkSkipsFailures ==
    /\ cmd.pc = "walk"
    /\ cmd.i < Len(WalkFiles)
    /\ \E file \in {WalkFiles[cmd.i + 1]} : \E ext \in SelectGetter(file.path) :
           \E new \in {New(file.path, file.fs, ext)} :
               cmd' = IF new.ok
                      THEN [cmd EXCEPT !.i = @ + 1, !.pkgs = Append(@, new.pkg)]
                      ELSE [cmd EXCEPT !.i = @ + 1]
    /\ UNCHANGED <<artifacts, mirror, idleVars>>

\* pkg.List(downloadDir, false): the walk's visit of the next file.  An error of
\* New ends the walk, List returns it and no packages, and Execute returns it.
CreateWalk ==
    /\ cmd.pc = "walk"
    /\ cmd.i < Len(WalkFiles)
    /\ \E file \in {WalkFiles[cmd.i + 1]} : \E ext \in SelectGetter(file.path) :
           \E new \in {New(file.path, file.fs, ext)} :
               cmd' = IF HasSuffix(file.path, metadataExt)
                      THEN [cmd EXCEPT !.i = @ + 1]
                      ELSE IF new.ok
                      THEN [cmd EXCEPT !.i = @ + 1, !.pkgs = Append(@, new.pkg)]
                      ELSE [cmd EXCEPT !.pkgs = <<>>, !.err = new.err, !.pc = "done"]
    /\ UNCHANGED <<artifacts, mirror, idleVars>>

\* Execute grouping the packages the walk has found so far.
CreateGroupBeforeWalkEnds ==
    /\ cmd.pc = "walk"
    /\ cmd.i <= Len(WalkFiles)
    /\ \E groups \in {GroupByNormName(cmd.pkgs)} :
           cmd' = [cmd EXCEPT !.groups = groups, !.g = 1, !.rootPkgs = <<>>,
                              !.pc = IF Len(groups) = 0 THEN "root" ELSE "mkdir"]
    /\ UNCHANGED <<artifacts, mirror, idleVars>>

\* groups := pkg.GroupByNormName(pkgs); rootPkgs := make(...)
CreateGroup ==
    /\ cmd.pc = "walk"
    /\ cmd.i = Len(WalkFiles)
    /\ \E groups \in {GroupByNormName(cmd.pkgs)} :
           cmd' = [cmd EXCEPT !.groups = groups, !.g = 1, !.rootPkgs = <<>>,
                              !.pc = IF Len(groups) = 0 THEN "root" ELSE "mkdir"]
    /\ UNCHANGED <<artifacts, mirror, idleVars>>

Fail(cause) == [cmd EXCEPT !.err = WrapErr("", cause), !.pc = "done"]

\* dir := filepath.Join(mirrorDir, normName); os.MkdirAll(dir, 0755)
CreateMkdirAll ==
    /\ cmd.pc = "mkdir"
    /\ LET dir == cmd.groups[cmd.g].Key
       IN  IF mirror.writable \/ dir \in mirror.dirs
           THEN /\ mirror' = [mirror EXCEPT !.dirs = @ \cup {dir}]
                /\ cmd' = [cmd EXCEPT !.pc = "fixnames", !.log = Append(@, Did("MkdirAll", dir, <<>>))]
           ELSE /\ cmd' = Fail("mkdir: permission denied")
                /\ UNCHANGED mirror
    /\ UNCHANGED <<artifacts, idleVars>>

\* pkg.FixNames(pkgs), on the group at work
CreateFixNames ==
    /\ cmd.pc = "fixnames"
    /\ cmd' = [cmd EXCEPT !.groups[cmd.g].Pkgs = FixNames(@), !.pc = "place", !.i = 1,
                          !.log = Append(@, Did("FixNames", cmd.groups[cmd.g].Key,
                                                cmd.groups[cmd.g].Pkgs))]
    /\ UNCHANGED <<artifacts, mirror, idleVars>>


\* The entries of the mirror at a path: one or none.
EntriesAt(dest) == {e \in mirror.entries : e.path = dest}

Link(dest, src) ==
    [path |-> dest, kind |-> "link", src |-> src, bytes |-> NoBytes,
     archive |-> [readable |-> FALSE, members |-> <<>>]]

Copy(dest, from) ==
    [path |-> dest, kind |-> "copy", src |-> "", bytes |-> from.bytes, archive |-> from.archive]

\* os.Symlink(link, dest): an entry that is there already stays as it is
\* (os.ErrExist is not an error for Execute).
Symlink(dest, src) ==
    /\ mirror' = IF EntriesAt(dest) = {} THEN [mirror EXCEPT !.entries = @ \cup {Link(dest, src)}]
                 ELSE mirror
    /\ UNCHANGED artifacts

\* copyFile(dest, src): os.Open(src), os.Create(dest), io.Copy(dest, src).
\* os.Create truncates the file at dest; where dest is a link, that file is the
\* one the link points to, a file of the download directory, and the copy
\* is written to it: src itself is left without bytes, another file gets the
\* bytes and the archive of src.
copyFile(dest, src) ==
    LET from == artifacts[FileAt(src)]
        links == {e \in EntriesAt(dest) : e.kind = "link"}
    IN  IF links = {}
        THEN /\ mirror' = [mirror EXCEPT !.entries = (@ \ EntriesAt(dest)) \cup {Copy(dest, from)}]
             /\ UNCHANGED artifacts
        ELSE /\ \E e \in links :
                    artifacts' = [artifacts EXCEPT ![FileAt(e.src)] =
                                    IF e.src = src
                                    THEN [@ EXCEPT !.bytes = NoBytes,
                                                   !.archive = [readable |-> FALSE, members |-> <<>>]]
                                    ELSE [@ EXCEPT !.bytes = from.bytes, !.archive = from.archive]]
             /\ UNCHANGED mirror

\* Execute returning the error of os.Symlink on a destination that exists.
CreatePlaceExistIsError ==
    /\ cmd.pc = "place"
    /\ cmd.i <= Len(cmd.groups[cmd.g].Pkgs)
    /\ LET p == cmd.groups[cmd.g].Pkgs[cmd.i]
           dest == Join(cmd.groups[cmd.g].Key, p.Filename)
       IN  IF ~cmd.copy /\ EntriesAt(dest) # {}
           THEN /\ cmd' = Fail("symlink: file exists")
                /\ UNCHANGED <<artifacts, mirror>>
           ELSE /\ IF cmd.copy THEN copyFile(dest, p.Path) ELSE Symlink(dest, p.Path)
                /\ cmd' = [cmd EXCEPT !.i = @ + 1,
                                      !.log = Append(@, Did(IF cmd.copy THEN "copyFile" ELSE "Symlink",
                                                            dest, <<p>>))]
    /\ UNCHANGED idleVars

\* for _, pkg := range pkgs: the next member of the group is copied or linked.
CreatePlace ==
    /\ cmd.pc = "place"
    /\ cmd.i <= Len(cmd.groups[cmd.g].Pkgs)
    /\ LET p == cmd.groups[cmd.g].Pkgs[cmd.i]
           dest == Join(cmd.groups[cmd.g].Key, p.Filename)
       IN  /\ IF cmd.copy THEN copyFile(dest, p.Path) ELSE Symlink(dest, p.Path)
           /\ cmd' = [cmd EXCEPT !.i = @ + 1,
                                 !.log = Append(@, Did(IF cmd.copy THEN "copyFile" ELSE "Symlink",
                                                       dest, <<p>>))]
    /\ UNCHANGED idleVars

\* packageHTMLTemplate: the title names the first package, every package has a link.
PackageHTML(pkgs) ==
    [title |-> pkgs[1].Metadata.Name,
     links |-> [k \in 1..Len(pkgs) |-> [Filename |-> pkgs[k].Filename, Hash |-> pkgs[k].Metadata.Hash]]]

\* rootHTMLTemplate: every package has a link.
RootHTML(pkgs) ==
    [k \in 1..Len(pkgs) |-> [NormName |-> pkgs[k].Metadata.NormName, Name |-> pkgs[k].Metadata.Name]]

\* os.Create(dir/index.html); generatePackageHTML(f, pkgs);
\* rootPkgs = append(rootPkgs, pkgs[0]); and on to the next group
CreatePackageIndex ==
    /\ cmd.pc = "place"
    /\ cmd.i > Len(cmd.groups[cmd.g].Pkgs)
    /\ LET dir == cmd.groups[cmd.g].Key
           pkgs == cmd.groups[cmd.g].Pkgs
       IN  /\ mirror' = [mirror EXCEPT !.indexes = {x \in @ : x.dir # dir}
                                                     \cup {[dir |-> dir, body |-> PackageHTML(pkgs)]}]
           /\ cmd' = [cmd EXCEPT !.rootPkgs = Append(@, pkgs[1]),
                                 !.log = @ \o <<Did("Create", Join(dir, "index.html"), <<>>),
                                                Did("generatePackageHTML", Join(dir, "index.html"), pkgs)>>,
                                 !.g = @ + 1,
                                 !.pc = IF cmd.g < Len(cmd.groups) THEN "mkdir" ELSE "root"]
    /\ UNCHANGED <<artifacts, idleVars>>

\* Execute writing the root index whether or not there are packages for it.
CreateRootIndexAlways ==
    /\ cmd.pc = "root"
    /\ mirror' = [mirror EXCEPT !.root = [exists |-> TRUE, body |-> RootHTML(cmd.rootPkgs)]]
    /\ cmd' = [cmd EXCEPT !.pc = "done",
                          !.log = @ \o <<Did("Create", "index.html", <<>>),
                                         Did("generateRootHTML", "index.html", cmd.rootPkgs)>>]
    /\ UNCHANGED <<artifacts, idleVars>>

\* if len(rootPkgs) > 0 { os.Create(mirrorDir/index.html); generateRootHTML(f, rootPkgs) }
\* return nil
CreateRootIndex ==
    /\ cmd.pc = "root"
    /\ IF Len(cmd.rootPkgs) > 0
       THEN /\ mirror' = [mirror EXCEPT !.root = [exists |-> TRUE, body |-> RootHTML(cmd.rootPkgs)]]
            /\ cmd' = [cmd EXCEPT !.pc = "done",
                                  !.log = @ \o <<Did("Create", "index.html", <<>>),
                                                 Did("generateRootHTML", "index.html", cmd.rootPkgs)>>]
       ELSE /\ cmd' = [cmd EXCEPT !.pc = "done"]
            /\ UNCHANGED mirror
    /\ UNCHANGED <<artifacts, idleVars>>

NextCreate ==
    \/ \E copy \in BOOLEAN : CreateStart(copy)
    \/ CreateWalk
    \/ CreateGroup
    \/ CreateMkdirAll
    \/ CreateFixNames
    \/ CreatePlace
    \/ CreatePackageIndex
    \/ CreateRootIndex

SpecCreate == InitCreate /\ [][NextCreate]_vars

\* create run with its defaults, -download-dir . and -mirror-dir ., in a
\* directory that holds artifacts and nothing else.
InitCreateInPlace ==
    /\ artifacts \in {WithBytes(WalkOrder(files)) :
                        files \in {s \in SUBSET DownloadArtifacts : Cardinality(s) <= MaxDownload}}
    /\ mirror = [EmptyMirror EXCEPT !.inside = TRUE]
    /\ cmd = NotStarted
    /\ NoResolver
    /\ group = <<>> /\ fixedGroup = <<>> /\ phase = "off"
    /\ NoCallVars
    /\ NoRunner

SpecCreateInPlace == InitCreateInPlace /\ [][NextCreate]_vars

(***************************************************************************)
(* Claims about the create command                                         *)
(***************************************************************************)
\* Execute has made or truncated <mirror>/index.html in this run.
WroteRootIndex ==
    \E k \in 1..Len(cmd.log) : cmd.log[k].op = "Create" /\ cmd.log[k].path = "index.html"

\* C19: create writes <mirror>/index.html if and only if at least one group was
\* produced: it writes the file only when there is a group, and a run that
\* returns success with a group has written it; on a download directory without
\* artifacts it returns success and the root index is neither made nor
\* truncated.
C19_RootIndexIffGroups ==
    /\ WroteRootIndex => Len(cmd.groups) >= 1 /\ mirror.root.exists
    /\ cmd.pc = "done" /\ cmd.err = NoWrappedErr => (WroteRootIndex <=> Len(cmd.groups) >= 1)
    /\ cmd.pc = "done" /\ Len(artifacts) = 0 =>
           /\ cmd.err = NoWrappedErr
           /\ ~WroteRootIndex
           /\ mirror.root \in {NoIndex, OldRootIndex}

\* create has returned success on an empty download directory, and the root
\* index of an earlier use of the mirror is still what it was.
C19_Witness ==
    /\ cmd.pc = "done" /\ cmd.runs = 1 /\ cmd.err = NoWrappedErr
    /\ Len(artifacts) = 0 /\ cmd.groups = <<>>
    /\ mirror.root = OldRootIndex

NormNamesOf(pkgs) == {pkgs[k].Metadata.NormName : k \in 1..Len(pkgs)}

\* C20: the sequence create passes to generateRootHTML is not empty, holds the
\* first member (after FixNames) of every group and nothing else, one package
\* for every normalized name of the download directory, in ascending order of
\* the normalized names; every sequence passed to generatePackageHTML is not
\* empty.
C20_RootPkgsAreOnePerNormName ==
    \A k \in 1..Len(cmd.log) :
        LET pkgs == cmd.log[k].pkgs
        IN  /\ cmd.log[k].op = "generatePackageHTML" => Len(pkgs) >= 1
            /\ cmd.log[k].op = "generateRootHTML" =>
                   /\ Len(pkgs) >= 1
                   /\ Len(pkgs) = Len(cmd.groups)
                   /\ \A g \in 1..Len(pkgs) : pkgs[g] = cmd.groups[g].Pkgs[1]
                   /\ NormNamesOf(pkgs) = NormNamesOf(cmd.pkgs)
                   /\ \A g, h \in 1..Len(pkgs) :
                          g # h => pkgs[g].Metadata.NormName # pkgs[h].Metadata.NormName
                   /\ \A g \in 1..(Len(pkgs) - 1) :
                          CompareString(pkgs[g].Metadata.NormName, pkgs[g + 1].Metadata.NormName) # 1

\* The file the walk visits next is one that New fails on.
NextFileFails ==
    /\ cmd.pc = "walk"
    /\ cmd.i < Len(WalkFiles)
    /\ ~HasSuffix(WalkFiles[cmd.i + 1].path, metadataExt)
    /\ \E ext \in SelectGetter(WalkFiles[cmd.i + 1].path) :
           ~New(WalkFiles[cmd.i + 1].path, WalkFiles[cmd.i + 1].fs, ext).ok

\* C21: when New fails on a file of the walk, List returns that error and no
\* packages, and create returns the error having made no directory, link, copy
\* or index in the mirror directory: the step that meets the failing file ends
\* the run with the error of New on that file, without packages and with the
\* mirror as it was, and a run that has ended with an error of New has done
\* nothing to the mirror.
C21_FailedResolutionStopsTheBatch ==
    [][/\ NextFileFails =>
              /\ cmd'.pc = "done"
              /\ cmd'.err.path = WalkFiles[cmd.i + 1].path /\ cmd'.err.cause # NoErr
              /\ cmd'.pkgs = <<>> /\ cmd'.groups = <<>>
              /\ mirror' = mirror
       /\ cmd'.err.path # "" =>
              /\ cmd'.pc = "done"
              /\ cmd'.pkgs = <<>> /\ cmd'.groups = <<>> /\ cmd'.rootPkgs = <<>>
              /\ cmd'.log = <<>>
              /\ (cmd'.runs = 1 =>
                     /\ mirror'.dirs = {} /\ mirror'.entries = {} /\ mirror'.indexes = {}
                     /\ mirror'.root \in {NoIndex, OldRootIndex})]_vars

\* create has returned the error of New on the third file of the walk, after
\* two files that were resolved, and the mirror is empty.
C21_Witness ==
    /\ cmd.pc = "done" /\ cmd.runs = 1
    /\ cmd.err.path = "d/readme.txt" /\ cmd.i = 2
    /\ cmd.pkgs = <<>>
    /\ mirror.dirs = {} /\ mirror.entries = {} /\ mirror.indexes = {}

\* Execute has returned nil.
CreateSucceeded == cmd.pc = "done" /\ cmd.runs >= 1 /\ cmd.err = NoWrappedErr

\* The packages of the walk with a normalized name.
PkgsNamed(normName) == {k \in 1..Len(cmd.pkgs) : cmd.pkgs[k].Metadata.NormName = normName}

\* The entry is a link to the file at src or a copy of its bytes.
IsEntryOf(e, src) ==
    \/ e.kind = "link" /\ e.src = src
    \/ e.kind = "copy" /\ e.bytes = artifacts[FileAt(src)].bytes

\* C22: after a successful create every artifact of the download directory has
\* its entry <mirror>/<NormName>/<Filename>, a link to it or a copy of it, and
\* the index in <mirror>/<NormName>/ lists the artifacts with that normalized
\* name and no others, each with its filename and the hash of its metadata.
C22_MirrorLayoutIsComplete ==
    CreateSucceeded =>
        /\ \A k \in 1..Len(cmd.pkgs) :
               \E e \in mirror.entries :
                   /\ e.path = Join(cmd.pkgs[k].Metadata.NormName, cmd.pkgs[k].Filename)
                   /\ IsEntryOf(e, cmd.pkgs[k].Path)
        /\ \A normName \in NormNamesOf(cmd.pkgs) :
               \E x \in mirror.indexes :
                   /\ x.dir = normName
                   /\ Len(x.body.links) = Cardinality(PkgsNamed(normName))
                   /\ {x.body.links[j] : j \in 1..Len(x.body.links)}
                          = {[Filename |-> cmd.pkgs[k].Filename, Hash |-> cmd.pkgs[k].Metadata.Hash] :
                               k \in PkgsNamed(normName)}

\* This run and the one before were both without -copy, and the one before
\* returned nil.
SecondLinkRun == cmd.last.ran /\ cmd.last.ok /\ ~cmd.last.copy /\ ~cmd.copy

\* C23: without -copy a destination that exists counts as done: a second run of
\* create over the same download directory into the same mirror returns nil
\* and leaves the entries and the indexes of the mirror as the first run left
\* them.
C23_SecondLinkRunChangesNothing ==
    SecondLinkRun /\ cmd.pc = "done" =>
        /\ cmd.err = NoWrappedErr
        /\ artifacts = cmd.last.files
        /\ mirror.dirs = cmd.last.mirror.dirs
        /\ mirror.entries = cmd.last.mirror.entries
        /\ mirror.indexes = cmd.last.mirror.indexes
        /\ mirror.root = cmd.last.mirror.root

\* A second run without -copy has returned, over a directory of three artifacts
\* that the first run linked into the mirror.
C23_Witness ==
    /\ SecondLinkRun /\ cmd.pc = "done" /\ cmd.runs = 2
    /\ Len(cmd.pkgs) = 3
    /\ Cardinality(mirror.entries) = 3
    /\ mirror.root.exists

(***************************************************************************)
(* GroupByVersion on its own: input is the collection, output the groups   *)
(* returned.                                                               *)
(***************************************************************************)
GroupByVersion(pkgs) == GroupBy(pkgs, "SortByVersion", "Version")

InitGroupByVersion ==
    /\ input \in VersionCollections
    /\ output = <<>>
    /\ phase = "call"
    /\ Idle

CallGroupByVersion ==
    /\ phase = "call"
    /\ output' = GroupByVersion(input)
    /\ phase' = "grouped"
    /\ UNCHANGED <<input, resolverVars, artifacts, group, fixedGroup, createVars, runnerVars>>

NextGroupByVersion == CallGroupByVersion

SpecGroupByVersion == InitGroupByVersion /\ [][NextGroupByVersion]_vars

\* C25: GroupByVersion returns one group for every version string of the
\* collection, whatever the strings are: no two groups have the same key, the
\* keys are the version strings of the collection, and every package is in the
\* group of its version string.
C25_OneGroupPerVersionString ==
    phase = "grouped" =>
        /\ \A g, h \in 1..Len(output) : g # h => output[g].Key # output[h].Key
        /\ {output[g].Key : g \in 1..Len(output)}
               = {input[i].Metadata.Version : i \in 1..Len(input)}
        /\ \A g \in 1..Len(output) :
               \A k \in 1..Len(output[g].Pkgs) : output[g].Pkgs[k].Metadata.Version = output[g].Key

\* What Execute does for the groups from g on, and then for the root index:
\* the calls in their order, each as <<op, path>>.
RECURSIVE StepsFrom(_, _, _)
StepsFrom(groups, copy, g) ==
    IF g > Len(groups)
    THEN IF Len(groups) = 0 THEN <<>>
         ELSE << <<"Create", "index.html">>, <<"generateRootHTML", "index.html">> >>
    ELSE LET dir == groups[g].Key
             pkgs == groups[g].Pkgs
         IN  << <<"MkdirAll", dir>>, <<"FixNames", dir>> >>
             \o [k \in 1..Len(pkgs) |->
                    <<IF copy THEN "copyFile" ELSE "Symlink", Join(dir, pkgs[k].Filename)>>]
             \o << <<"Create", Join(dir, "index.html")>>,
                   <<"generatePackageHTML", Join(dir, "index.html")>> >>
             \o StepsFrom(groups, copy, g + 1)

\* The walk has resolved every file of the download directory.
WalkIsComplete ==
    /\ Len(cmd.pkgs) = Len(artifacts)
    /\ \A k \in 1..Len(artifacts) : cmd.pkgs[k].Path = artifacts[k].path

\* C27: create reconciles no group and writes nothing to the mirror before the
\* walk has resolved every artifact; what it does then is, group after group,
\* MkdirAll, FixNames, the link or copy of every member, the index of the
\* group, and after the index of the last group the root index.
C27_CreateStepsAreOrdered ==
    LET done == [k \in 1..Len(cmd.log) |-> <<cmd.log[k].op, cmd.log[k].path>>]
        plan == StepsFrom(cmd.groups, cmd.copy, 1)
    IN  /\ cmd.log # <<>> \/ cmd.groups # <<>> => WalkIsComplete
        /\ Len(done) <= Len(plan) /\ done = SubSeq(plan, 1, Len(done))
        /\ CreateSucceeded => done = plan

\* create has returned nil on three artifacts in two groups, after thirteen
\* calls in all.
C27_Witness ==
    /\ CreateSucceeded
    /\ Len(cmd.pkgs) = 3 /\ Len(cmd.groups) = 2
    /\ Len(cmd.log) = 13

\* C28: create never writes to a file of the download directory: whatever runs
\* there were, with and without -copy, every artifact has the bytes and the
\* archive it had before the first run.
C28_ArtifactsAreNeverWritten ==
    [][artifacts' = artifacts]_vars

\* C29: the files create writes are not taken for artifacts by a later walk:
\* when create has returned nil with the mirror directory being the download
\* directory, the walk of the next run over that directory fails on no file
\* and finds the artifacts and nothing else.
C29_OwnFilesAreNotArtifacts ==
    cmd.last.ran /\ cmd.last.ok =>
        /\ cmd.err.path = ""
        /\ cmd.pc \notin {"idle", "walk"} =>
               [k \in 1..Len(cmd.pkgs) |-> cmd.pkgs[k].Path]
                   = [k \in 1..Len(artifacts) |-> artifacts[k].path]

(***************************************************************************)
(* The command runner.  A goroutine (the worker) runs the command's        *)
(* Execute and reports on the channel errCh, which has no buffer; main     *)
(* waits in a select for the report or for an interrupt on sigCh (buffer   *)
(* of one), and after an interrupt cancels the context and waits for the   *)
(* report.  There are two runners: cmd.Execute, whose worker always sends  *)
(* (the error or nil) and then closes the channel, and main.main, whose    *)
(* worker sends only an error and closes the channel in any case.          *)
(*   runner.rev        which runner: "cmd.Execute" or "main.main"          *)
(*   runner.main       where main is                                       *)
(*   runner.worker     where the worker is                                 *)
(*   runner.work       the steps the command has done                      *)
(*   runner.result     what the command's Execute returned ("" before)     *)
(*   runner.closed     errCh is closed                                     *)
(*   runner.sigCh      the signals in sigCh                                *)
(*   runner.signals    the interrupts sent to the process so far           *)
(*   runner.cancelled  cancel() was called                                 *)
(*   runner.got        what main received from errCh                       *)
(*   runner.exit       how the process ended ("" while it runs)            *)
(*   runner.out        what was printed                                    *)
(***************************************************************************)
\* The steps of work a command does before its Execute returns.
MaxWork == 2

\* The interrupts sent to the process.
MaxSignals == 2

Runners == {"cmd.Execute", "main.main"}

NothingReceived == [value |-> "", ok |-> FALSE]

InitRunner ==
    /\ runner \in {[rev |-> rev, main |-> "notify", worker |-> "exec", work |-> 0, result |-> "",
                    closed |-> FALSE, sigCh |-> 0, signals |-> 0, cancelled |-> FALSE,
                    got |-> NothingReceived, exit |-> "", out |-> <<>>] : rev \in Runners}
    /\ NoResolver
    /\ NoGroup
    /\ NoCallVars
    /\ NoCreate

otherVars == <<resolverVars, groupVars, callVars, createVars>>

Running == runner.exit = ""

\* An interrupt is sent to the process: before signal.Notify it ends the
\* process; after it the signal is put into sigCh unless sigCh is full.
Interrupt ==
    /\ Running
    /\ runner.signals < MaxSignals
    /\ runner' = IF runner.main = "notify"
                 THEN [runner EXCEPT !.signals = @ + 1, !.exit = "killed"]
                 ELSE [runner EXCEPT !.signals = @ + 1, !.sigCh = 1]
    /\ UNCHANGED otherVars

\* The command at work; no command looks at the context it is given.
Work ==
    /\ Running
    /\ runner.worker = "exec"
    /\ runner.work < MaxWork
    /\ runner' = [runner EXCEPT !.work = @ + 1]
    /\ UNCHANGED otherVars

\* cmd.Execute returns err: the worker goes to send it, or to close the channel
\* when main.main's worker got nil.
ExecuteReturns(err) ==
    /\ Running
    /\ runner.worker = "exec"
    /\ runner.work = MaxWork
    /\ runner' = [runner EXCEPT !.result = err,
                                !.worker = IF runner.rev = "cmd.Execute" \/ err # "nil"
                                           THEN "send" ELSE "close"]
    /\ UNCHANGED otherVars

\* close(errCh), and the goroutine ends.
Close ==
    /\ Running
    /\ runner.worker = "close"
    /\ runner' = [runner EXCEPT !.closed = TRUE, !.worker = "exit"]
    /\ UNCHANGED otherVars

\* signal.Notify(sigCh, os.Interrupt)
Notify ==
    /\ Running
    /\ runner.main = "notify"
    /\ runner' = [runner EXCEPT !.main = "select"]
    /\ UNCHANGED otherVars

\* <-errCh, in the select or after cancel(), with the worker at its send: the
\* value goes from the worker to main.
Receive ==
    /\ Running
    /\ runner.main \in {"select", "wait"}
    /\ runner.worker = "send"
    /\ runner' = [runner EXCEPT !.got = [value |-> runner.result, ok |-> TRUE],
                                !.worker = "close",
                                !.main = IF runner.main = "select" THEN "report" ELSE "reportInterrupted"]
    /\ UNCHANGED otherVars

\* <-errCh on the closed channel: the zero value, and ok is false.
ReceiveClosed ==
    /\ Running
    /\ runner.main \in {"select", "wait"}
    /\ runner.closed
    /\ runner' = [runner EXCEPT !.got = [value |-> "nil", ok |-> FALSE],
                                !.main = IF runner.main = "select" THEN "report" ELSE "reportInterrupted"]
    /\ UNCHANGED otherVars

\* case <-sigCh
TakeSignal ==
    /\ Running
    /\ runner.main = "select"
    /\ runner.sigCh = 1
    /\ runner' = [runner EXCEPT !.sigCh = 0, !.main = "cancel"]
    /\ UNCHANGED otherVars

\* The runner returning after cancel() without waiting for the command.
MainCancelReturns ==
    /\ Running
    /\ runner.main = "cancel"
    /\ runner' = [runner EXCEPT !.cancelled = TRUE, !.main = "returned", !.exit = "return"]
    /\ UNCHANGED otherVars

\* cancel(), and on to the receive that follows it
MainCancel ==
    /\ Running
    /\ runner.main = "cancel"
    /\ runner' = [runner EXCEPT !.cancelled = TRUE, !.main = "wait"]
    /\ UNCHANGED otherVars

\* What main does with what it received, and the end of the process.
\* cmd.Execute prints an error (after an interrupt whatever it got) and
\* returns; main.main calls log.Fatal if it got a value and returns otherwise.
Report ==
    /\ Running
    /\ runner.main \in {"report", "reportInterrupted"}
    /\ runner' =
           IF runner.rev = "cmd.Execute"
           THEN [runner EXCEPT !.out = IF runner.main = "reportInterrupted" \/ runner.got.value # "nil"
                                       THEN Append(@, runner.got.value) ELSE @,
                               !.main = "returned", !.exit = "return"]
           ELSE IF runner.got.ok
           THEN [runner EXCEPT !.out = Append(@, runner.got.value),
                               !.main = "returned", !.exit = "fatal"]
           ELSE [runner EXCEPT !.main = "returned", !.exit = "return"]
    /\ UNCHANGED otherVars

MainSteps == Notify \/ Receive \/ ReceiveClosed \/ TakeSignal \/ MainCancel \/ Report

WorkerSteps == Work \/ (\E err \in {"nil", "err"} : ExecuteReturns(err)) \/ Close

NextRunner ==
    \/ Interrupt
    \/ Work
    \/ \E err \in {"nil", "err"} : ExecuteReturns(err)
    \/ Close
    \/ Notify
    \/ Receive
    \/ ReceiveClosed
    \/ TakeSignal
    \/ MainCancel
    \/ Report

\* The scheduler runs a goroutine that can run, and a command returns in the end.
SpecRunner ==
    InitRunner /\ [][NextRunner]_vars /\ WF_vars(MainSteps) /\ WF_vars(WorkerSteps)

====
